---- MODULE Spec2Model ----
(***************************************************************************)
(* A model of the archival pipeline of camus (czcorpus/camus):             *)
(*   - the Redis queue and its drain (archiver.RedisAdapter),              *)
(*   - the ArchKeeper tick (archiver.ArchKeeper.performCheck),             *)
(*   - the Deduplicator (Bloom filter + TestAndSolve),                     *)
(*   - the relational archive (cncdb.MySQLConcArch, autocommit),           *)
(*   - the query-history garbage collector (history.GarbageCollector).     *)
(* Store calls that can fail are given a nondeterministic error outcome,   *)
(* bounded by MaxFaults.                                                   *)
(***************************************************************************)
EXTENDS Integers, Sequences, FiniteSets, TLC

(* ------------------------------ bounds --------------------------------- *)

\* number of entries producers push to the queue in one behaviour
MaxPush == 2
\* the clock runs from 1 to MaxTime
MaxTime == 2
\* number of store errors injected in one behaviour
MaxFaults == 1
\* number of administrative operations (Deduplicator reset, service stop)
MaxAdmin == 1
\* conf.CheckIntervalChunk: max. number of entries drained per tick
CheckIntervalChunk == 2
\* conf.PreloadLastNItems: number of recent rows a Deduplicator reset loads
PreloadLastNItems == 1
\* number of rows of the history table in the initial state
MaxHistRows == 3
\* conf.QueryHistoryMaxNumDeleteAtOnce
MaxNumDelete == 2

(* ------------------------------ values --------------------------------- *)

IDs == {"a", "b"}
Payloads == {"p1", "p2"}
None == "none"
\* Go's zero time.Time (IsZero() is true)
ZeroTime == 0

\* queueRecord.KeyCode: strips the "concordance:" prefix
KeyCode(key) ==
    IF key = "concordance:a" THEN "a"
    ELSE IF key = "concordance:b" THEN "b"
    ELSE key

\* A raw queue entry (a Redis list element). form = "bare": a plain id
\* string; "json": a JSON object with the fields below; "bad": a string
\* that contains "key" but is not valid JSON.
RawEntry(form, key, type, explicit) ==
    [key |-> key, form |-> form, type |-> type, explicit |-> explicit]

QueueEntries ==
    {RawEntry("bare", k, "", FALSE) : k \in IDs}
    \cup {RawEntry("json", "a", "archive", TRUE)}
    \cup {RawEntry("json", "a", "history", FALSE)}
    \cup {RawEntry("bad", "a", "", FALSE)}

\* The decoding loop body of NextNArchItems: strings.Contains(item, "key")
\* selects json.Unmarshal, anything else becomes queueRecord{Key: item}.
DecodeOK(raw) == raw.form # "bad"

DecodeEntry(raw) ==
    IF raw.form = "json"
    THEN [Type |-> raw.type, Key |-> raw.key, Explicit |-> raw.explicit]
    ELSE [Type |-> "", Key |-> raw.key, Explicit |-> FALSE]

\* json.Marshal(item) as pushed to the failure queue by AddError
ItemJSON(item) == RawEntry("json", item.Key, item.Type, item.Explicit)

QueryArchRec(id, data, created, numAccess, lastAccess, permanent) ==
    [ID |-> id, Data |-> data, Created |-> created, NumAccess |-> numAccess,
     LastAccess |-> lastAccess, Permanent |-> permanent]

\* positions of the Bloom filter an id hashes to
BloomBits(id) == IF id = "a" THEN {1, 2} ELSE {2, 3}

ZeroStats == [NumErrors |-> 0, NumMerged |-> 0, NumInserted |-> 0, NumFetched |-> 0]

(* ------------------------------ state ---------------------------------- *)

VARIABLES
    queue,          \* Redis list conf.QueueKey, head first (LPUSH prepends)
    payloadStore,   \* Redis keys concordance:<id> -> payload or None
    failedQueue,    \* Redis list conf.FailedQueueKey, head first
    failedPayloads, \* Redis hash fields written by AddError's HSet
    archive,        \* table kontext_conc_persistence, a sequence of rows
    knownIDs,       \* Deduplicator.knownIDs, the set bits of the filter
    ddFile,         \* the Deduplicator state file: [exists, bits]
    akPc,           \* position of the ArchKeeper task
    akRanged,       \* result of the LRANGE of the running drain
    akItems,        \* drained items the running tick has yet to process
    akMerge,        \* the merge in flight (DeduplicateInArchive)
    currStats,      \* performCheck's currStats
    stats,          \* ArchKeeper.stats
    recsToIndex,    \* messages sent on the history stream
    now,            \* the clock
    pushes,         \* number of entries pushed so far
    faults,         \* number of store errors injected so far
    admins,         \* number of administrative operations so far
    obs,            \* observations of the run (history variables)
    hist,           \* table kontext_query_history
    ftIndex,        \* ids of the documents of the full-text index
    gcLast,         \* outcome of the last HistoryGC delete phase
    gcMark,         \* outcome of the last HistoryGC mark phase
    gcTimer,        \* the delete timer of GarbageCollector.Start
    gcObs,          \* observations of the HistoryGC (history variable)
    adhocUsers,     \* Redis sorted set camus_users_qh_gc
    clCursor,       \* Redis key conf.StatusKey of the Cleaner: [set, wall]
    clPc,           \* position of the Cleaner task
    tzOffset,       \* UTC offset of time.Local of the process, in hours
    clLast,         \* outcome of the last Cleaner tick (history variable)
    ixLast,         \* the last call on the Indexer (history variable)
    diKey,          \* Redis key camus_users_qh_init: [type, users]
    diObs,          \* observations of the init import (history variable)
    ctCl,           \* the Cleaner's work on one item, statement by statement
    shut            \* the shutdown: context, history stream, Indexer loop

archVars == <<queue, payloadStore, failedQueue, failedPayloads, archive,
              knownIDs, ddFile, akPc, akRanged, akItems, akMerge, currStats,
              stats, recsToIndex, now, pushes, faults, admins, obs>>
gcVars == <<hist, ftIndex, gcLast, gcMark, gcTimer, gcObs, adhocUsers>>
clVars == <<clCursor, clPc, tzOffset, clLast>>
ixVars == <<ixLast>>
diVars == <<diKey, diObs>>
ctVars == <<ctCl>>
sdVars == <<shut>>
restVars == <<diVars, ctVars, sdVars>>
vars == <<archVars, gcVars, clVars, ixVars, restVars>>

(* --------------------------- the archive store -------------------------- *)

\* MySQLConcArch.LoadRecordsByID
LoadRecordsByID(concID) == SelectSeq(archive, LAMBDA r : r.ID = concID)

\* MySQLConcArch.ContainsRecord
ContainsRecord(concID) == LoadRecordsByID(concID) # <<>>

\* MySQLConcArch.RemoveRecordsByID: the table after the DELETE
RemoveRecordsByID(tbl, concID) == SelectSeq(tbl, LAMBDA r : r.ID # concID)

\* MySQLConcArch.InsertRecord: the table after the INSERT
InsertRecord(tbl, rec) == Append(tbl, rec)

\* the loop of MergeRecords
RECURSIVE MergeLoop(_, _)
MergeLoop(recs, ans) ==
    IF recs = <<>> THEN ans
    ELSE LET rec == Head(recs)
             nxt == [ans EXCEPT
                 !.NumAccess = @ + rec.NumAccess,
                 !.Created = IF rec.Created < ans.Created /\ rec.Created # ZeroTime
                             THEN rec.Created ELSE @,
                 !.LastAccess = IF rec.LastAccess > ans.LastAccess
                                THEN rec.LastAccess ELSE @,
                 !.Permanent = IF rec.Permanent > ans.Permanent
                               THEN rec.Permanent ELSE @]
         IN MergeLoop(Tail(recs), nxt)

\* MergeRecords without the increment of NumAccess
MergeRecordsNoIncrement(recs, newRec, t) ==
    MergeLoop(recs, [newRec EXCEPT !.LastAccess = t])

\* cncdb.MergeRecords; t is time.Now()
MergeRecords(recs, newRec, t) ==
    MergeLoop(recs, [newRec EXCEPT !.NumAccess = @ + 1, !.LastAccess = t])

(* ----------------------------- Deduplicator ---------------------------- *)

\* Deduplicator.TestRecord
TestRecord(concID) == BloomBits(concID) \subseteq knownIDs

\* Deduplicator.Add with a filter that sets one of the positions only
DedupAddOneBit(bits, concID) == bits \cup {CHOOSE b \in BloomBits(concID) : TRUE}

\* Deduplicator.Add: the filter after AddString
DedupAdd(bits, concID) == bits \cup BloomBits(concID)

\* Deduplicator.StoreToDisk: the state file after knownIDs.WriteTo
StoreToDisk(bits) == [exists |-> TRUE, bits |-> bits]

\* Deduplicator.LoadFromDisk: the filter after knownIDs.ReadFrom
LoadFromDisk(file) == file.bits

\* TestAndSolve, grouping of the loaded rows by payload (queryTest)
QueryTest(recs, data) == SelectSeq(recs, LAMBDA r : r.Data = data)

RowData(recs) == {recs[i].Data : i \in 1..Len(recs)}

\* TestAndSolve, the keys the search for bestRecKey can end with: the map
\* is ranged over in an unspecified order and a strictly larger group wins
BestRecKeys(recs) ==
    {k \in RowData(recs) :
        \A k2 \in RowData(recs) : Len(QueryTest(recs, k2)) <= Len(QueryTest(recs, k))}

(* ------------------------------ RedisAdapter --------------------------- *)

Min(x, y) == IF x < y THEN x ELSE y

\* LRANGE key -n -1
LRangeTail(lst, n) == SubSeq(lst, Len(lst) - Min(n, Len(lst)) + 1, Len(lst))

\* LTRIM key 0 -n-1
LTrimTail(lst, n) == SubSeq(lst, 1, Len(lst) - Min(n, Len(lst)))

\* a loop that walks the items from the first to the last
Unreversed(s) == s

\* NextNArchItems: "for i := len(items) - 1; i >= 0; i--"
Reverse(s) == [i \in 1..Len(s) |-> s[Len(s) + 1 - i]]

\* RedisAdapter.GetConcRecord on a hit
GetConcRecord(id) == QueryArchRec(id, payloadStore[id], ZeroTime, 0, ZeroTime, 0)

\* RedisAdapter.AddError, the LPush of the marshalled item
AddErrorQueue(q, item) == <<ItemJSON(item)>> \o q

\* RedisAdapter.AddError, the HSet of the payload. It addresses the key the
\* LPush has just written a list to, which Redis refuses (WRONGTYPE), so
\* the hash is left as it is.
AddErrorPayloads(h, item, rec) == h

(* ------------------------------- Init ---------------------------------- *)

NoRec == QueryArchRec("", "", ZeroTime, 0, ZeroTime, 0)
NoItem == [Type |-> "", Key |-> "", Explicit |-> FALSE]
NoMerge == [curr |-> <<>>, rec |-> NoRec, item |-> NoItem, pre |-> <<>>]
NoTick == [valid |-> FALSE, delta |-> 0, mergedNet |-> 0, inserted |-> 0,
           drained |-> 0]
NoLastMerge == [valid |-> FALSE, pre |-> <<>>, curr |-> <<>>, newRec |-> NoRec,
                merged |-> NoRec, after |-> <<>>, at |-> 0]
NoLastExplicit == [valid |-> FALSE, pre |-> 0, post |-> 0, known |-> FALSE]

\* the rows the archive holds when the service starts
InitArchives ==
    {<<>>, <<QueryArchRec("a", "p1", 1, 1, 1, 0)>>}

\* the Deduplicator state file found by NewDeduplicator
InitDDFiles ==
    {[exists |-> FALSE, bits |-> {}]}

InitObs ==
    [trimLost |-> 0, decodeLost |-> 0, mergedIds |-> {}, failed |-> {},
     errTotal |-> 0, failCount |-> 0, implicitIns |-> {}, tickDelta |-> 0, tickMergedNet |-> 0,
     tickDrained |-> 0, lastTick |-> NoTick, lastMerge |-> NoLastMerge,
     lastExplicit |-> NoLastExplicit, firstArchival |-> FALSE, statsSent |-> 0,
     ddAdded |-> {}, ddStored |-> {}, ddLoaded |-> FALSE,
     qSeq |-> <<>>, rangedSeq |-> <<>>, lastProc |-> 0, inOrder |-> TRUE,
     multi |-> FALSE, procTicks |-> 0]

InitGCIdle ==
    /\ hist = {}
    /\ ftIndex = {}
    /\ gcLast = [result |-> "none", selected |-> 0, pending |-> 0, preRows |-> 0,
                 preDocs |-> 0, postRows |-> 0, postDocs |-> 0]
    /\ gcMark = [result |-> "none", cap |-> 0, flagged |-> 0, beyondCap |-> 0,
                 recent |-> FALSE]
    /\ gcTimer = [armed |-> TRUE, fired |-> FALSE, watched |-> TRUE, sleepers |-> 0]
    /\ gcObs = [namedFlagged |-> FALSE, namedRemoved |-> FALSE,
                namedSelected |-> FALSE, adhocNamedRemoved |-> FALSE,
                adhoc |-> [ran |-> FALSE, done |-> {}, failed |-> {}, lost |-> {},
                           left |-> {}, repeated |-> {}, removedAgain |-> {}],
                adhocClean |-> {}]
    /\ adhocUsers = {}

NoCursor == [set |-> FALSE, wall |-> 0]
NoClean == [ran |-> FALSE, valid |-> FALSE, before |-> NoCursor, after |-> NoCursor,
            failed |-> {}, failKind |-> "none", tagged |-> FALSE,
            stats |-> [NumFetched |-> 0, NumMerged |-> 0, NumErrors |-> 0],
            done |-> 0, fetched |-> 0, available |-> 0, night |-> FALSE,
            soleOld |-> 0, soleOldLeft |-> {}, oldMerged |-> {}, oldMergedLeft |-> {}]

\* no call on the Indexer yet
NoIndexOp == [op |-> "none", rec |-> None, key |-> None, indexed |-> FALSE,
              again |-> FALSE, preCount |-> 0, docs |-> {}, n |-> 0]

Users == {1, 2}

\* Redis has no key camus_users_qh_init and no init import has run
NoKey == [type |-> "none", users |-> {}]
NoImport == [runs |-> 0, taken |-> [u \in Users |-> 0], afterFinish |-> FALSE,
             changed |-> FALSE, exited |-> FALSE]

\* the Cleaner is between two items
NoClStep == [pc |-> "idle", id |-> None, variants |-> <<>>, n |-> 0]

\* main has started the services: the context is live, the history stream
\* is open and the Indexer's loop waits in its select
Running == [ctx |-> "live", closed |-> FALSE, ixPc |-> "select",
            sentClosed |-> FALSE, zeroRecv |-> FALSE]

InitRestIdle ==
    /\ diKey = NoKey
    /\ diObs = NoImport
    /\ ctCl = NoClStep
    /\ shut = Running

InitClIdle ==
    /\ clCursor = NoCursor
    /\ clPc = "idle"
    /\ tzOffset = 0
    /\ clLast = NoClean
    /\ ixLast = NoIndexOp
    /\ InitRestIdle

\* NewRedisAdapter, NewDeduplicator, NewArchKeeper
Init ==
    /\ queue = <<>>
    /\ payloadStore = [i \in IDs |-> None]
    /\ failedQueue = <<>>
    /\ failedPayloads = [i \in IDs |-> None]
    /\ archive \in InitArchives
    /\ ddFile \in InitDDFiles
    /\ knownIDs = ddFile.bits
    /\ akPc = "idle"
    /\ akRanged = <<>>
    /\ akItems = <<>>
    /\ akMerge = NoMerge
    /\ currStats = ZeroStats
    /\ stats = ZeroStats
    /\ recsToIndex = <<>>
    /\ now = 1
    /\ pushes = 0
    /\ faults = 0
    /\ admins = 0
    /\ obs = InitObs
    /\ InitGCIdle
    /\ InitClIdle

(* ---------------------------- environment ------------------------------ *)

IsArchiveEntry(e) == e.form = "bare" \/ (e.form = "json" /\ e.type = "archive")

\* The workbench stores a payload under concordance:<id> (or not: p = None)
\* and prepends an entry to the queue.
Push(e, p) ==
    /\ pushes < MaxPush
    /\ p # None => IsArchiveEntry(e)
    /\ pushes' = pushes + 1
    /\ queue' = <<e>> \o queue
    /\ payloadStore' = IF p = None THEN payloadStore
                       ELSE [payloadStore EXCEPT ![KeyCode(e.key)] = p]
    \* the entries of the queue are numbered in the order of their pushes
    /\ obs' = [obs EXCEPT !.qSeq = <<pushes + 1>> \o @]
    /\ UNCHANGED <<failedQueue, failedPayloads, archive, knownIDs, ddFile, akPc,
                   akRanged, akItems, akMerge, currStats, stats, recsToIndex,
                   now, faults, admins, gcVars, clVars, ixVars, restVars>>

ClockTick ==
    /\ now < MaxTime
    /\ now' = now + 1
    /\ UNCHANGED <<queue, payloadStore, failedQueue, failedPayloads, archive,
                   knownIDs, ddFile, akPc, akRanged, akItems, akMerge, currStats,
                   stats, recsToIndex, pushes, faults, admins, obs, gcVars, clVars, ixVars, restVars>>

(* ------------------------ ArchKeeper.performCheck ----------------------- *)

\* NextNArchItems, the LRANGE of the pipeline
AkRange ==
    /\ akPc = "idle"
    /\ akRanged' = LRangeTail(queue, CheckIntervalChunk)
    /\ akPc' = "ranged"
    /\ obs' = [obs EXCEPT !.rangedSeq = LRangeTail(obs.qSeq, CheckIntervalChunk)]
    /\ UNCHANGED <<queue, payloadStore, failedQueue, failedPayloads, archive,
                   knownIDs, ddFile, akItems, akMerge, currStats, stats,
                   recsToIndex, now, pushes, faults, admins, gcVars, clVars, ixVars, restVars>>

\* NextNArchItems, the LTRIM of the pipeline and the decoding of the items;
\* on a decoding error performCheck returns
AkTrim ==
    /\ akPc = "ranged"
    /\ queue' = LTrimTail(queue, CheckIntervalChunk)
    /\ LET removed == Len(queue) - Len(queue')
           decodable == \A i \in 1..Len(akRanged) : DecodeOK(akRanged[i])
           \* the chunk is one bare id, its payload is stored, and neither the
           \* Deduplicator nor the archive knows the id
           \* the numbers of the items in the order of the loop of performCheck
           order == IF decodable THEN Reverse(obs.rangedSeq) ELSE <<>>
           first == /\ Len(akRanged) = 1
                    /\ akRanged[1].form = "bare"
                    /\ payloadStore[KeyCode(akRanged[1].key)] # None
                    /\ ~TestRecord(KeyCode(akRanged[1].key))
                    /\ ~ContainsRecord(KeyCode(akRanged[1].key))
       IN /\ akPc' = IF decodable THEN "proc" ELSE "idle"
          /\ akItems' = IF decodable
                        THEN [i \in 1..Len(akRanged) |-> DecodeEntry(Reverse(akRanged)[i])]
                        ELSE <<>>
          /\ obs' = [obs EXCEPT
                 !.trimLost = @ + (removed - Len(akRanged)),
                 !.decodeLost = @ + (IF decodable THEN 0 ELSE Len(akRanged)),
                 !.tickDelta = 0,
                 !.tickMergedNet = 0,
                 !.tickDrained = removed,
                 !.firstArchival = first,
                 !.qSeq = LTrimTail(@, CheckIntervalChunk),
                 !.rangedSeq = <<>>,
                 !.lastProc = IF order = <<>> THEN @ ELSE order[Len(order)],
                 !.inOrder = /\ @
                             /\ \A i \in 1..Len(order) :
                                    /\ obs.lastProc < order[i]
                                    /\ \A j \in 1..(i - 1) : order[j] < order[i],
                 !.multi = @ \/ Len(order) >= 2,
                 !.procTicks = IF order # <<>> THEN Min(@ + 1, 2) ELSE @]
    /\ akRanged' = <<>>
    /\ currStats' = ZeroStats
    /\ UNCHANGED <<payloadStore, failedQueue, failedPayloads, archive, knownIDs,
                   ddFile, akMerge, stats, recsToIndex, now, pushes, faults,
                   admins, gcVars, clVars, ixVars, restVars>>

\* variables no step of the loop body of performCheck writes
LoopFrame == UNCHANGED <<queue, payloadStore, ddFile, akRanged, stats, now,
                         pushes, admins, gcVars, clVars, ixVars, restVars>>

CurItem == Head(akItems)
CurID == KeyCode(CurItem.Key)
\* rec as stamped by performCheck: rec.Created = time.Now()
CurRec == [GetConcRecord(CurID) EXCEPT !.Created = now]
IsArchiveItem(item) == item.Type \in {"archive", ""}

\* the item failed: what AddError leaves in Redis, and the record of it
Failed(item, data, counted) ==
    [obs EXCEPT !.failed = @ \cup {[item |-> item, data |-> data]},
                !.failCount = @ + 1,
                !.errTotal = @ + counted]

\* performCheck after the archive path: rec.FetchData, getCorpusSize and the
\* send on the stats stream. ArchKeeper.corpSizes is a nil map (NewArchKeeper
\* does not make it): the lookup misses, and storing the size dbArch.CorpusSize
\* returned panics, which ends the process (csOk). When dbArch.CorpusSize
\* fails the loop continues with the next item. The send on the stats stream
\* (counted by obs.statsSent) is reached on neither path.
AfterArchive(csOk) ==
    /\ akPc' = IF csOk THEN "crashed" ELSE "proc"
    /\ akItems' = IF csOk THEN <<>> ELSE Tail(akItems)

\* GetConcRecord fails (payload missing, or a Redis error)
AkItemMissing ==
    /\ akPc = "proc" /\ akItems # <<>>
    /\ \E err \in BOOLEAN :
        /\ IF err THEN faults < MaxFaults /\ payloadStore[CurID] # None
                  ELSE payloadStore[CurID] = None
        /\ faults' = IF err THEN faults + 1 ELSE faults
    /\ failedQueue' = AddErrorQueue(failedQueue, CurItem)
    /\ currStats' = [currStats EXCEPT !.NumFetched = @ + 1, !.NumErrors = @ + 1]
    /\ obs' = Failed(CurItem, None, 1)
    /\ akItems' = Tail(akItems)
    /\ UNCHANGED <<failedPayloads, archive, knownIDs, akPc, akMerge, recsToIndex>>
    /\ LoopFrame

\* case QRTypeHistory: the send on the history stream. The stream has no
\* buffer, so the send waits for the Indexer's loop to receive; a send on the
\* closed stream panics, which ends the process.
AkItemHistory ==
    /\ akPc = "proc" /\ akItems # <<>>
    /\ payloadStore[CurID] # None
    /\ CurItem.Type = "history"
    /\ IF shut.closed
       THEN /\ akPc' = "crashed"
            /\ akItems' = <<>>
            /\ shut' = [shut EXCEPT !.sentClosed = TRUE]
            /\ UNCHANGED recsToIndex
       ELSE /\ shut.ixPc = "select"
            /\ recsToIndex' = Append(recsToIndex,
                                     [QueryID |-> CurItem.Key, Rec |-> CurRec])
            /\ akItems' = Tail(akItems)
            /\ UNCHANGED <<akPc, shut>>
    /\ currStats' = [currStats EXCEPT !.NumFetched = @ + 1]
    /\ UNCHANGED <<failedQueue, failedPayloads, archive, knownIDs, akMerge,
                   faults, obs>>
    /\ UNCHANGED <<queue, payloadStore, ddFile, akRanged, stats, now, pushes,
                   admins, gcVars, clVars, ixVars, diVars, ctVars>>

\* handleExplicitReq
AkItemExplicit ==
    /\ akPc = "proc" /\ akItems # <<>>
    /\ payloadStore[CurID] # None
    /\ IsArchiveItem(CurItem) /\ CurItem.Explicit
    /\ \E cErr \in BOOLEAN, iErr \in BOOLEAN, csOk \in BOOLEAN :
        LET exists == IF cErr THEN FALSE ELSE ContainsRecord(CurID)
            nErr == (IF cErr THEN 1 ELSE 0) + (IF iErr THEN 1 ELSE 0)
            inserted == ~exists /\ ~iErr
        IN /\ iErr => ~exists
           /\ faults + nErr <= MaxFaults
           /\ faults' = faults + nErr
           /\ archive' = IF inserted THEN InsertRecord(archive, CurRec) ELSE archive
           /\ knownIDs' = IF exists THEN knownIDs ELSE DedupAdd(knownIDs, CurID)
           /\ currStats' = [currStats EXCEPT
                  !.NumFetched = @ + 1,
                  !.NumErrors = @ + nErr,
                  !.NumInserted = @ + (IF inserted THEN 1 ELSE 0)]
           /\ obs' = [(IF nErr > 0 THEN Failed(CurItem, CurRec.Data, nErr) ELSE obs)
                      EXCEPT !.tickDelta = @ + (IF inserted THEN 1 ELSE 0),
                             !.ddAdded = IF exists THEN @ ELSE @ \cup {CurID},
                             !.lastExplicit =
                                 [valid |-> TRUE,
                                  pre |-> Len(LoadRecordsByID(CurID)),
                                  post |-> Len(LoadRecordsByID(CurID))
                                           + (IF inserted THEN 1 ELSE 0),
                                  known |-> BloomBits(CurID) \subseteq knownIDs']]
           /\ AfterArchive(csOk)
    /\ UNCHANGED <<failedQueue, failedPayloads, akMerge, recsToIndex>>
    /\ LoopFrame

\* handleImplicitReq when TestAndSolve reports no match: the filter does not
\* know the id, or it does and the archive has no row (false positive)
AkItemImplicitInsert ==
    /\ akPc = "proc" /\ akItems # <<>>
    /\ payloadStore[CurID] # None
    /\ IsArchiveItem(CurItem) /\ ~CurItem.Explicit
    /\ ~TestRecord(CurID) \/ LoadRecordsByID(CurID) = <<>>
    /\ \E iErr \in BOOLEAN, csOk \in BOOLEAN :
        /\ iErr => faults < MaxFaults
        /\ faults' = IF iErr THEN faults + 1 ELSE faults
        /\ archive' = IF iErr THEN archive ELSE InsertRecord(archive, CurRec)
        /\ failedQueue' = IF iErr THEN AddErrorQueue(failedQueue, CurItem)
                          ELSE failedQueue
        /\ failedPayloads' = IF iErr
                             THEN AddErrorPayloads(failedPayloads, CurItem, CurRec)
                             ELSE failedPayloads
        /\ obs' = [(IF iErr THEN Failed(CurItem, CurRec.Data, 0)
                    ELSE [obs EXCEPT !.tickDelta = @ + 1,
                                     !.implicitIns = @ \cup {CurRec}])
                   EXCEPT !.ddAdded = @ \cup {CurID}]
        /\ AfterArchive(csOk)
    /\ knownIDs' = DedupAdd(knownIDs, CurID)
    /\ currStats' = [currStats EXCEPT !.NumFetched = @ + 1, !.NumInserted = @ + 1]
    /\ UNCHANGED <<akMerge, recsToIndex>>
    /\ LoopFrame

\* handleImplicitReq when TestAndSolve fails to load the rows of the id
AkItemImplicitLoadFail ==
    /\ akPc = "proc" /\ akItems # <<>>
    /\ payloadStore[CurID] # None
    /\ IsArchiveItem(CurItem) /\ ~CurItem.Explicit
    /\ TestRecord(CurID)
    /\ faults < MaxFaults
    /\ faults' = faults + 1
    /\ failedQueue' = AddErrorQueue(failedQueue, CurItem)
    /\ failedPayloads' = AddErrorPayloads(failedPayloads, CurItem, CurRec)
    /\ currStats' = [currStats EXCEPT !.NumFetched = @ + 1, !.NumErrors = @ + 1]
    /\ obs' = Failed(CurItem, CurRec.Data, 1)
    /\ \E csOk \in BOOLEAN : AfterArchive(csOk)
    /\ UNCHANGED <<archive, knownIDs, akMerge, recsToIndex>>
    /\ LoopFrame

\* handleImplicitReq, TestAndSolve up to the call of DeduplicateInArchive:
\* the rows of the id are loaded and the largest payload group is chosen
AkItemImplicitMatch ==
    /\ akPc = "proc" /\ akItems # <<>>
    /\ payloadStore[CurID] # None
    /\ IsArchiveItem(CurItem) /\ ~CurItem.Explicit
    /\ TestRecord(CurID)
    /\ LoadRecordsByID(CurID) # <<>>
    /\ \E bestRecKey \in BestRecKeys(LoadRecordsByID(CurID)) :
        akMerge' = [curr |-> QueryTest(LoadRecordsByID(CurID), bestRecKey),
                    rec |-> CurRec, item |-> CurItem,
                    pre |-> LoadRecordsByID(CurID)]
    /\ akPc' = "remove"
    /\ currStats' = [currStats EXCEPT !.NumFetched = @ + 1]
    /\ UNCHANGED <<failedQueue, failedPayloads, archive, knownIDs, akItems,
                   recsToIndex, faults, obs>>
    /\ LoopFrame

\* DeduplicateInArchive: RemoveRecordsByID (autocommit)
AkMergeRemove ==
    /\ akPc = "remove"
    /\ \E err \in BOOLEAN :
        /\ err => faults < MaxFaults
        /\ faults' = IF err THEN faults + 1 ELSE faults
        /\ IF err
           THEN /\ failedQueue' = AddErrorQueue(failedQueue, akMerge.item)
                /\ failedPayloads' =
                       AddErrorPayloads(failedPayloads, akMerge.item, akMerge.rec)
                /\ currStats' = [currStats EXCEPT !.NumErrors = @ + 1]
                /\ obs' = Failed(akMerge.item, akMerge.rec.Data, 1)
                /\ \E csOk \in BOOLEAN : AfterArchive(csOk)
                /\ akMerge' = NoMerge
                /\ UNCHANGED archive
           ELSE /\ archive' = RemoveRecordsByID(archive, akMerge.rec.ID)
                /\ akMerge' = [akMerge EXCEPT !.pre = LoadRecordsByID(akMerge.rec.ID)]
                /\ obs' = [obs EXCEPT
                       !.mergedIds = IF LoadRecordsByID(akMerge.rec.ID) # <<>>
                                     THEN @ \cup {akMerge.rec.ID} ELSE @,
                       !.tickDelta = @ - Len(LoadRecordsByID(akMerge.rec.ID))]
                /\ akPc' = "insert"
                /\ UNCHANGED <<failedQueue, failedPayloads, currStats, akItems>>
    /\ UNCHANGED <<knownIDs, recsToIndex>>
    /\ LoopFrame

\* DeduplicateInArchive: MergeRecords and InsertRecord (autocommit), then
\* the rest of handleImplicitReq
AkMergeInsert ==
    /\ akPc = "insert"
    /\ \E err \in BOOLEAN :
        LET ans == MergeRecords(akMerge.curr, akMerge.rec, now)
        IN /\ err => faults < MaxFaults
           /\ faults' = IF err THEN faults + 1 ELSE faults
           /\ IF err
              THEN /\ failedQueue' = AddErrorQueue(failedQueue, akMerge.item)
                   /\ failedPayloads' =
                          AddErrorPayloads(failedPayloads, akMerge.item, akMerge.rec)
                   /\ currStats' = [currStats EXCEPT !.NumErrors = @ + 1]
                   /\ obs' = Failed(akMerge.item, akMerge.rec.Data, 1)
                   /\ UNCHANGED archive
              ELSE /\ archive' = InsertRecord(archive, ans)
                   /\ currStats' = [currStats EXCEPT !.NumMerged = @ + 1]
                   /\ obs' = [obs EXCEPT
                          !.tickDelta = @ + 1,
                          !.tickMergedNet = @ + 1 - Len(akMerge.pre),
                          !.lastMerge = [valid |-> TRUE, pre |-> akMerge.pre,
                              curr |-> akMerge.curr, newRec |-> akMerge.rec,
                              merged |-> ans,
                              after |-> SelectSeq(archive', LAMBDA r : r.ID = ans.ID),
                              at |-> now]]
                   /\ UNCHANGED <<failedQueue, failedPayloads>>
    /\ \E csOk \in BOOLEAN : AfterArchive(csOk)
    /\ akMerge' = NoMerge
    /\ UNCHANGED <<knownIDs, recsToIndex>>
    /\ LoopFrame

\* the end of performCheck
AkFinish ==
    /\ akPc = "proc" /\ akItems = <<>>
    /\ akPc' = "idle"
    /\ stats' = [f \in DOMAIN stats |-> stats[f] + currStats[f]]
    /\ obs' = [obs EXCEPT !.lastTick =
           [valid |-> TRUE, delta |-> obs.tickDelta, mergedNet |-> obs.tickMergedNet,
            inserted |-> currStats.NumInserted, drained |-> obs.tickDrained]]
    /\ UNCHANGED <<queue, payloadStore, failedQueue, failedPayloads, archive,
                   knownIDs, ddFile, akRanged, akItems, akMerge, currStats,
                   recsToIndex, now, pushes, faults, admins, gcVars, clVars, ixVars, restVars>>

(* --------------------- Deduplicator and service life cycle ------------- *)

\* MySQLConcArch.LoadRecentNRecords: the sets of (positions of) rows that
\* ORDER BY created DESC LIMIT num can return
LoadRecentNRecords(num) ==
    {S \in SUBSET (1..Len(archive)) :
        /\ Cardinality(S) = Min(num, Len(archive))
        /\ \A i \in S, j \in (1..Len(archive)) \ S :
               archive[i].Created >= archive[j].Created}

RECURSIVE AddAll(_, _)
AddAll(bits, ids) ==
    IF ids = {} THEN bits
    ELSE LET i == CHOOSE x \in ids : TRUE
         IN AddAll(DedupAdd(bits, i), ids \ {i})

\* Deduplicator.Reset (POST /dedup-reset): ClearAll, then preloadLastNItems
DedupReset ==
    /\ akPc \notin {"crashed", "stopped"}
    /\ admins < MaxAdmin
    /\ admins' = admins + 1
    /\ \E err \in BOOLEAN :
        /\ err => faults < MaxFaults
        /\ faults' = IF err THEN faults + 1 ELSE faults
        /\ IF err THEN /\ knownIDs' = {}
                       /\ obs' = [obs EXCEPT !.ddAdded = {}, !.ddLoaded = FALSE]
           ELSE \E S \in LoadRecentNRecords(PreloadLastNItems) :
                    /\ knownIDs' = AddAll({}, {archive[i].ID : i \in S})
                    /\ obs' = [obs EXCEPT !.ddAdded = {archive[i].ID : i \in S},
                                          !.ddLoaded = FALSE]
    /\ UNCHANGED <<queue, payloadStore, failedQueue, failedPayloads, archive,
                   ddFile, akPc, akRanged, akItems, akMerge, currStats, stats,
                   recsToIndex, now, pushes, gcVars, clVars, ixVars, restVars>>

\* ArchKeeper.Stop between two ticks: Deduplicator.OnClose stores the filter
Stop ==
    /\ akPc = "idle"
    /\ admins < MaxAdmin
    /\ admins' = admins + 1
    /\ akPc' = "stopped"
    /\ ddFile' = StoreToDisk(knownIDs)
    /\ obs' = [obs EXCEPT !.ddStored = (IF obs.ddLoaded THEN @ ELSE {}) \cup obs.ddAdded]
    /\ UNCHANGED <<queue, payloadStore, failedQueue, failedPayloads, archive,
                   knownIDs, akRanged, akItems, akMerge, currStats, stats,
                   recsToIndex, now, pushes, faults, gcVars, clVars, ixVars, restVars>>

\* the service is started again: NewDeduplicator (LoadFromDisk when the
\* state file exists) and NewArchKeeper
Restart ==
    /\ akPc \in {"crashed", "stopped"}
    /\ akPc' = "idle"
    /\ knownIDs' = IF ddFile.exists THEN LoadFromDisk(ddFile) ELSE {}
    /\ obs' = [obs EXCEPT !.ddAdded = {}, !.ddLoaded = ddFile.exists]
    /\ akRanged' = <<>>
    /\ akItems' = <<>>
    /\ akMerge' = NoMerge
    /\ currStats' = ZeroStats
    /\ stats' = ZeroStats
    /\ UNCHANGED <<queue, payloadStore, failedQueue, failedPayloads, archive,
                   ddFile, recsToIndex, now, pushes, faults, admins, gcVars, clVars, ixVars, restVars>>

(* ------------------------------ shutdown ------------------------------- *)

SdFrame == UNCHANGED <<queue, payloadStore, failedQueue, failedPayloads, archive,
                       knownIDs, akRanged, akItems, akMerge, currStats, stats,
                       recsToIndex, now, pushes, faults, admins, gcVars, clVars,
                       ixVars, diVars, ctVars>>

\* main: SIGINT or SIGTERM cancels the context
CtxCancel ==
    /\ shut.ctx = "live"
    /\ shut' = [shut EXCEPT !.ctx = "done"]
    /\ UNCHANGED <<akPc, ddFile, obs>>
    /\ SdFrame

\* ArchKeeper.Stop, called by main in a goroutine of its own once the
\* context is done: it closes the stream (and the stats stream) and stores
\* the Deduplicator; it does not wait for the loop of Start
AkStop ==
    /\ shut.ctx = "done"
    /\ ~shut.closed
    /\ shut' = [shut EXCEPT !.closed = TRUE]
    /\ ddFile' = StoreToDisk(knownIDs)
    /\ obs' = [obs EXCEPT !.ddStored = (IF obs.ddLoaded THEN @ ELSE {}) \cup obs.ddAdded]
    /\ UNCHANGED akPc
    /\ SdFrame

\* ArchKeeper.Start, case <-ctx.Done() of the select between two ticks
AkLoopExit ==
    /\ shut.ctx = "done"
    /\ akPc = "idle"
    /\ akPc' = "stopped"
    /\ UNCHANGED <<shut, ddFile, obs>>
    /\ SdFrame

\* Indexer.Start, case <-ctx.Done()
IxLoopExit ==
    /\ shut.ctx = "done"
    /\ shut.ixPc = "select"
    /\ shut' = [shut EXCEPT !.ixPc = "stopped"]
    /\ UNCHANGED <<akPc, ddFile, obs>>
    /\ SdFrame

\* Indexer.Start, case hRec := <-idx.recsToIndex on the closed stream: the
\* receive yields the zero HistoryRecord, and IndexRecord -> RecToDoc reads
\* hRec.Rec.Data through the nil pointer Rec, which panics
IxRecvClosed ==
    /\ shut.closed
    /\ shut.ixPc = "select"
    /\ shut' = [shut EXCEPT !.ixPc = "crashed", !.zeroRecv = TRUE]
    /\ UNCHANGED <<akPc, ddFile, obs>>
    /\ SdFrame

\* the services until the process ends
NextShutdown ==
    \/ \E e \in QueueEntries, p \in Payloads \cup {None} : Push(e, p)
    \/ AkRange
    \/ AkTrim
    \/ AkItemMissing
    \/ AkItemHistory
    \/ AkItemExplicit
    \/ AkItemImplicitInsert
    \/ AkItemImplicitLoadFail
    \/ AkItemImplicitMatch
    \/ AkMergeRemove
    \/ AkMergeInsert
    \/ AkFinish
    \/ CtxCancel
    \/ AkStop
    \/ AkLoopExit
    \/ IxLoopExit
    \/ IxRecvClosed

SpecShutdown == Init /\ [][NextShutdown]_vars

Next ==
    \/ \E e \in QueueEntries, p \in Payloads \cup {None} : Push(e, p)
    \/ ClockTick
    \/ AkRange
    \/ AkTrim
    \/ AkItemMissing
    \/ AkItemHistory
    \/ AkItemExplicit
    \/ AkItemImplicitInsert
    \/ AkItemImplicitLoadFail
    \/ AkItemImplicitMatch
    \/ AkMergeRemove
    \/ AkMergeInsert
    \/ AkFinish
    \/ DedupReset
    \/ Stop
    \/ Restart

Spec == Init /\ [][Next]_vars

(* ----------------------------- HistoryGC ------------------------------ *)

\* conf.QueryHistoryNumPreserve, the configured per-user cap
QueryHistoryNumPreserve == 1
\* GarbageCollector.numPreserve: NewGarbageCollector does not set the field,
\* so it holds Go's zero value
numPreserve == 0
\* MarkOldQueryHistory: the statement has one placeholder ("row_num > ?") ...
MarkStmtPlaceholders == 1
\* ... and ExecContext is given no argument for it
MarkStmtArgs == 0
\* "LIMIT 500" of GetUserGarbageHistory and GarbageCollectUserQueryHistory,
\* scaled to the size of the tables of the model
AdHocLimit == 1

\* fmt.Sprintf of three values joined by a separator, as the sequence of
\* its parts
Sprintf3(sep, x, y, z) == <<x, sep, y, sep, z>>

\* HistoryRecord.CreateIndexID: "%d/%d/%s"
CreateIndexID(rec) == Sprintf3("/", rec.UserID, rec.Created, rec.QueryID)

\* QuerySupertype values; "" is QuerySupertypeUnsupported
Supertypes == {"conc", "pquery", "wlist", "kwords", ""}

\* QuerySupertype.IsIndexable
IsIndexable(qs) == qs \in {"conc", "pquery", "wlist", "kwords"}

\* UntypedQueryRecord.GetSupertype of the archived query with the given
\* id: one query of each supertype
GetSupertype(q) ==
    IF q = "q1" THEN "conc" ELSE IF q = "q2" THEN "pquery"
    ELSE IF q = "q3" THEN "wlist" ELSE IF q = "q4" THEN "kwords" ELSE ""

\* Indexer.RecToDoc and AsIndexableDoc: importConc, importWlist,
\* importKwords and importPquery fill ID, UserID and Created alike, the
\* document keeps its type
AsIndexableDoc(hRec) ==
    [Type |-> hRec.Supertype, ID |-> hRec.QueryID, UserID |-> hRec.UserID,
     Created |-> hRec.Created]

\* Concordance.GetID, Kwords.GetID, PQuery.GetID: "%s/%d/%s";
\* Wordlist.GetID: "%s-%d-%s"
GetID(doc) ==
    IF doc.Type = "wlist"
    THEN Sprintf3("-", doc.UserID, doc.Created, doc.ID)
    ELSE Sprintf3("/", doc.UserID, doc.Created, doc.ID)

\* an index that drops the document it is given
BleveIndexDropped(idx, id) == idx

\* bleve Index(id, doc): the document ids of the index after the write
BleveIndex(idx, id) == idx \cup {id}

\* bleve Delete(id)
BleveDelete(idx, id) == idx \ {id}

\* a row of kontext_query_history with the supertype of the archived query
\* it points to; the tables of the service loop hold concordance entries
HistRow(k, name, pending) ==
    [UserID |-> 1 + (k % 2), Created |-> k, QueryID |-> "a", Name |-> name,
     Pending |-> pending, Supertype |-> "conc"]

\* the history tables the service can find: each entry is named or not
\* (Name = None: NULL) and flagged at time 1 or 2 or not (Pending = 0: NULL)
InitHists ==
    {{HistRow(k, f[k][1], f[k][2]) : k \in 1..MaxHistRows} :
        f \in [1..MaxHistRows -> {None, "n"} \X (0..2)]}

NoDelete == [result |-> "none", selected |-> 0, pending |-> 0, preRows |-> 0,
             preDocs |-> 0, postRows |-> 0, postDocs |-> 0]
NoMark == [result |-> "none", cap |-> 0, flagged |-> 0, beyondCap |-> 0,
           recent |-> FALSE]
\* Start: timer := time.NewTimer(gc.checkInterval), and the loop enters select
InitTimer == [armed |-> TRUE, fired |-> FALSE, watched |-> TRUE, sleepers |-> 0]
\* no ad-hoc run yet
NoAdHoc == [ran |-> FALSE, done |-> {}, failed |-> {}, lost |-> {}, left |-> {},
            repeated |-> {}, removedAgain |-> {}]

InitGcObs == [namedFlagged |-> FALSE, namedRemoved |-> FALSE,
              namedSelected |-> FALSE, adhocNamedRemoved |-> FALSE,
              adhoc |-> NoAdHoc, adhocClean |-> {}]

InitGC ==
    /\ queue = <<>>
    /\ payloadStore = [i \in IDs |-> None]
    /\ failedQueue = <<>>
    /\ failedPayloads = [i \in IDs |-> None]
    /\ archive = <<>>
    /\ ddFile = [exists |-> FALSE, bits |-> {}]
    /\ knownIDs = {}
    /\ akPc = "idle"
    /\ akRanged = <<>>
    /\ akItems = <<>>
    /\ akMerge = NoMerge
    /\ currStats = ZeroStats
    /\ stats = ZeroStats
    /\ recsToIndex = <<>>
    /\ now = 1
    /\ pushes = 0
    /\ faults = 0
    /\ admins = 0
    /\ obs = InitObs
    /\ hist \in InitHists
    /\ ftIndex = {GetID(AsIndexableDoc(r)) : r \in hist}
    /\ gcLast = NoDelete
    /\ gcMark = NoMark
    /\ gcTimer = InitTimer
    /\ gcObs = InitGcObs
    /\ adhocUsers = {}
    /\ InitClIdle

GcArchFrame == UNCHANGED <<queue, payloadStore, failedQueue, failedPayloads,
                           archive, knownIDs, ddFile, akPc, akRanged, akItems,
                           akMerge, currStats, stats, recsToIndex, now, pushes,
                           admins, obs, clVars, ixVars, restVars>>

Unnamed(tbl, u) == {r \in tbl : r.UserID = u /\ r.Name = None}

\* ROW_NUMBER() OVER (PARTITION BY user_id ORDER BY created DESC) over the
\* rows WHERE name is NULL
RowNum(tbl, r) == 1 + Cardinality({q \in Unnamed(tbl, r.UserID) : q.Created > r.Created})

\* the rows the UPDATE of MarkOldQueryHistory joins to, were row_num > cap
MarkOldRows(tbl, cap) == {r \in tbl : r.Name = None /\ RowNum(tbl, r) > cap}

MaxPending(tbl) ==
    IF tbl = {} THEN 0
    ELSE CHOOSE m \in {r.Pending : r \in tbl} : \A r \in tbl : r.Pending <= m

\* MySQLQueryHist.MarkOldQueryHistory: the server rejects the statement, whose
\* placeholder is not bound; bound, it would set pending_deletion_from = NOW()
MarkOldQueryHistory(tbl, cap) ==
    IF MarkStmtArgs < MarkStmtPlaceholders
    THEN [err |-> TRUE, hist |-> tbl]
    ELSE [err |-> FALSE,
          hist |-> {IF r \in MarkOldRows(tbl, cap)
                    THEN [r EXCEPT !.Pending = MaxPending(tbl) + 1] ELSE r : r \in tbl}]

\* the select of Start is entered again: it waits on the timer the variable
\* holds now. The variable is written by the goroutine that sleeps after an
\* error without synchronisation, so the loop may still read the old timer.
ReenterSelect(t) ==
    {[t EXCEPT !.watched = w] : w \in IF t.watched THEN {TRUE} ELSE {TRUE, FALSE}}

\* Start, case <-markerTimer.C: createPendingRecords
GcMarkPhase ==
    LET out == MarkOldQueryHistory(hist, numPreserve)
        changed == {r \in hist : r \notin out.hist}
    IN /\ hist' = out.hist
       /\ gcMark' = [result |-> IF out.err THEN "error" ELSE "ok",
                     cap |-> numPreserve,
                     flagged |-> Cardinality(changed),
                     beyondCap |-> Cardinality(MarkOldRows(hist, QueryHistoryNumPreserve)),
                     recent |-> \E r \in changed : RowNum(hist, r) <= QueryHistoryNumPreserve]
       /\ gcObs' = [gcObs EXCEPT !.namedFlagged = @ \/ \E r \in changed : r.Name # None]
       /\ gcTimer' \in ReenterSelect(gcTimer)
       /\ UNCHANGED <<ftIndex, gcLast, adhocUsers, faults>>
       /\ GcArchFrame

\* the delete timer expires
GcTimerFires ==
    /\ gcTimer.armed /\ ~gcTimer.fired
    /\ gcTimer' = [gcTimer EXCEPT !.fired = TRUE]
    /\ UNCHANGED <<hist, ftIndex, gcLast, gcMark, gcObs, adhocUsers, faults>>
    /\ GcArchFrame

\* the goroutine started after a delete phase with errors:
\* time.Sleep(timeWaitAfterDelErrors); timer = time.NewTimer(gc.checkInterval).
\* The select of the loop has been entered before and waits on the old timer.
GcSleepDone ==
    /\ gcTimer.sleepers > 0
    /\ gcTimer' = [armed |-> TRUE, fired |-> FALSE, watched |-> FALSE,
                   sleepers |-> gcTimer.sleepers - 1]
    /\ UNCHANGED <<hist, ftIndex, gcLast, gcMark, gcObs, adhocUsers, faults>>
    /\ GcArchFrame

\* MySQLQueryHist.GetPendingDeletionHistory: the results that
\* ORDER BY pending_deletion_from LIMIT maxItems can return
GetPendingDeletionHistory(maxItems) ==
    LET pend == {r \in hist : r.Pending # 0}
        n == Min(maxItems, Cardinality(pend))
    IN {s \in [1..n -> pend] :
           /\ \A i, j \in 1..n : i < j => s[i] # s[j] /\ s[i].Pending <= s[j].Pending
           /\ \A r \in pend : (\A i \in 1..n : s[i] # r) =>
                  \A i \in 1..n : s[i].Pending <= r.Pending}

\* a delete without the condition on the name
RemoveQueryHistoryAnyName(tbl, rec) ==
    {r \in tbl : /\ r.Created = rec.Created /\ r.UserID = rec.UserID
                 /\ r.QueryID = rec.QueryID}

\* MySQLQueryHist.RemoveQueryHistory: the rows the DELETE matches. The
\* statement runs on ops.db, not on the transaction it is handed.
RemoveQueryHistory(tbl, rec) ==
    {r \in tbl : /\ r.Created = rec.Created /\ r.UserID = rec.UserID
                 /\ r.QueryID = rec.QueryID /\ r.Name = None}

\* the loop of processDeletionPendingRecords from entry i on; failAt and
\* failKind place an injected store or index error (failAt = 0: none).
\* A rollback undoes nothing: the deletes were not made in the transaction,
\* and the index is not transactional.
RECURSIVE DeleteLoop(_, _, _, _, _, _)
DeleteLoop(recs, i, tbl, idx, failAt, failKind) ==
    IF i > Len(recs) THEN [hist |-> tbl, ftIndex |-> idx, result |-> "ok"]
    ELSE LET hit == RemoveQueryHistory(tbl, recs[i])
         IN IF (failAt = i /\ failKind = "remove") \/ hit = {}
            THEN [hist |-> tbl, ftIndex |-> idx, result |-> "rollback"]
            ELSE IF failAt = i /\ failKind = "index"
            THEN [hist |-> tbl \ hit, ftIndex |-> idx, result |-> "rollback"]
            ELSE DeleteLoop(recs, i + 1, tbl \ hit, idx \ {CreateIndexID(recs[i])},
                            failAt, failKind)

\* the named entries of tbl that tbl2 or idx2 no longer hold
NamedLost(tbl, idx, tbl2, idx2) ==
    {r \in tbl : /\ r.Name # None
                 /\ \/ r \notin tbl2
                    \/ CreateIndexID(r) \in idx /\ CreateIndexID(r) \notin idx2}

\* Start, case <-timer.C: indexer.Count, TableSize,
\* processDeletionPendingRecords, and the re-arming of the timer
GcDeletePhase ==
    /\ gcTimer.watched /\ gcTimer.fired
    /\ \E recs \in GetPendingDeletionHistory(MaxNumDelete) :
       \E failAt \in 0..Len(recs), failKind \in {"remove", "index", "size"} :
        LET out == DeleteLoop(recs, 1, hist, ftIndex, failAt, failKind)
            sizeErr == failAt = 0 /\ failKind = "size"
            numErrors == (IF out.result = "ok" THEN 0 ELSE 1) + (IF sizeErr THEN 1 ELSE 0)
        IN /\ failAt = 0 => failKind \in {"remove", "size"}
           /\ failAt > 0 => failKind # "size"
           /\ (failAt > 0 \/ sizeErr) => faults < MaxFaults
           /\ faults' = IF failAt > 0 \/ sizeErr THEN faults + 1 ELSE faults
           /\ hist' = out.hist
           /\ ftIndex' = out.ftIndex
           /\ gcLast' = [result |-> out.result, selected |-> Len(recs),
                         pending |-> Cardinality({r \in hist : r.Pending # 0}),
                         preRows |-> Cardinality(hist),
                         preDocs |-> Cardinality(ftIndex),
                         postRows |-> Cardinality(out.hist),
                         postDocs |-> Cardinality(out.ftIndex)]
           /\ gcObs' = [gcObs EXCEPT
                  !.namedRemoved =
                      @ \/ NamedLost(hist, ftIndex, out.hist, out.ftIndex) # {},
                  !.namedSelected =
                      @ \/ \E i \in 1..Len(recs) : recs[i].Name # None]
           /\ gcTimer' = IF numErrors = 0
                         THEN [gcTimer EXCEPT !.armed = TRUE, !.fired = FALSE,
                                              !.watched = TRUE]
                         ELSE [gcTimer EXCEPT !.armed = FALSE, !.fired = FALSE,
                                              !.watched = TRUE, !.sleepers = @ + 1]
    /\ UNCHANGED <<gcMark, adhocUsers>>
    /\ GcArchFrame

\* the workbench: a user gives a name to an entry of the history
UserNamesEntry ==
    \E r \in hist :
        /\ r.Name = None
        /\ hist' = (hist \ {r}) \cup {[r EXCEPT !.Name = "n"]}
        /\ UNCHANGED <<archVars, clVars, ixVars, restVars, ftIndex, gcLast, gcMark, gcTimer, gcObs, adhocUsers>>

(* ------------------- HistoryGC: ad-hoc chunked run --------------------- *)

\* MySQLQueryHist.GetUserGarbageHistory, and the rows the DELETE of
\* GarbageCollectUserQueryHistory matches: the rows of the user whose created
\* is not among the LIMIT most recent created values of the user
GetUserGarbageHistory(tbl, userID) ==
    LET mine == {r \in tbl : r.UserID = userID}
        preserve == {r.Created : r \in {q \in mine :
                        Cardinality({x \in mine : x.Created > q.Created}) < AdHocLimit}}
    IN {r \in mine : r.Created \notin preserve}

\* RedisAdapter.UintZRemLowest
Lowest(S) == CHOOSE u \in S : \A v \in S : u <= v

RECURSIVE DeleteDocs(_, _)
DeleteDocs(idx, recs) ==
    IF recs = {} THEN idx
    ELSE LET r == CHOOSE x \in recs : TRUE
         IN DeleteDocs(BleveDelete(idx, CreateIndexID(r)), recs \ {r})

\* the loop of RunAdHoc over at most n users. failUser is the user for whom
\* a statement fails (0: none): with failKind = "select" it is
\* GetUserGarbageRecords, with "delete" GarbageCollectRecords, which comes
\* after the deletes in the index. acc = [users, hist, ftIndex, done, failed]
RECURSIVE AdHocLoop(_, _, _, _)
AdHocLoop(n, failUser, failKind, acc) ==
    IF n = 0 \/ acc.users = {} THEN acc
    ELSE LET u == Lowest(acc.users)
             rmFromIndex == GetUserGarbageHistory(acc.hist, u)
             popped == [acc EXCEPT !.users = @ \ {u}]
         IN IF u = failUser /\ failKind = "select"
            THEN AdHocLoop(n - 1, failUser, failKind,
                           [popped EXCEPT !.failed = @ \cup {u}])
            ELSE IF u = failUser
            THEN AdHocLoop(n - 1, failUser, failKind,
                           [popped EXCEPT !.ftIndex = DeleteDocs(@, rmFromIndex),
                                          !.failed = @ \cup {u}])
            ELSE AdHocLoop(n - 1, failUser, failKind,
                           [popped EXCEPT !.hist = @ \ rmFromIndex,
                                          !.ftIndex = DeleteDocs(@, rmFromIndex),
                                          !.done = @ \cup {u}])

\* GarbageCollector.RunAdHoc (command gc-query-history). interruptAfter is
\* the number of users after which ctx.Done() is observed (0: never).
RunAdHoc ==
    \E chunkSize \in 1..Cardinality(Users), interruptAfter \in 0..1,
       failUser \in {0} \cup Users, failKind \in {"select", "delete"} :
        LET seeded == IF adhocUsers = {} THEN {r.UserID : r \in hist} ELSE adhocUsers
            n == IF interruptAfter > 0 THEN Min(chunkSize, interruptAfter) ELSE chunkSize
            out == AdHocLoop(n, failUser, failKind,
                             [users |-> seeded, hist |-> hist, ftIndex |-> ftIndex,
                              done |-> {}, failed |-> {}])
            garbage == UNION {GetUserGarbageHistory(hist, u) : u \in out.done}
        IN /\ failUser # 0 => faults < MaxFaults /\ failUser \in out.failed
           /\ failUser = 0 => failKind = "select"
           /\ faults' = IF failUser # 0 THEN faults + 1 ELSE faults
           /\ adhocUsers' = out.users
           /\ hist' = out.hist
           /\ ftIndex' = out.ftIndex
           /\ gcObs' = [gcObs EXCEPT
                  !.adhocNamedRemoved =
                      @ \/ NamedLost(hist, ftIndex, out.hist, out.ftIndex) # {},
                  !.adhoc = [ran |-> TRUE, done |-> out.done, failed |-> out.failed,
                             lost |-> out.failed \ out.users,
                             left |-> {r \in garbage :
                                         \/ r \in out.hist
                                         \/ GetID(AsIndexableDoc(r)) \in out.ftIndex},
                             repeated |-> out.done \cap gcObs.adhocClean,
                             removedAgain |->
                                 {u \in out.done \cap gcObs.adhocClean :
                                     \/ \E r \in hist \ out.hist : r.UserID = u
                                     \/ \E r \in hist : /\ r.UserID = u
                                                        /\ GetID(AsIndexableDoc(r))
                                                           \in ftIndex \ out.ftIndex}],
                  !.adhocClean = (@ \cup out.done) \ out.failed]
           /\ UNCHANGED <<gcLast, gcMark, gcTimer>>
           /\ GcArchFrame

\* the workbench: a user runs a query, which adds an entry to the history
\* and its document to the index
HistWrite ==
    /\ pushes < MaxPush
    /\ \E u \in Users, q \in {"q1", "q3"} :
        LET r == [UserID |-> u, Created |-> MaxHistRows + 1 + pushes, QueryID |-> q,
                  Name |-> None, Pending |-> 0, Supertype |-> GetSupertype(q)]
        IN /\ hist' = hist \cup {r}
           /\ ftIndex' = BleveIndex(ftIndex, GetID(AsIndexableDoc(r)))
           /\ gcObs' = [gcObs EXCEPT !.adhocClean = @ \ {u}]
    /\ pushes' = pushes + 1
    /\ UNCHANGED <<queue, payloadStore, failedQueue, failedPayloads, archive,
                   knownIDs, ddFile, akPc, akRanged, akItems, akMerge, currStats,
                   stats, recsToIndex, now, faults, admins, obs, clVars, ixVars, restVars,
                   gcLast, gcMark, gcTimer, adhocUsers>>

\* the history tables the command can find: entries of concordances (q1)
\* and of word lists (q3), each with its document in the index
InitAdHocHists ==
    {{[UserID |-> 1 + (k % 2), Created |-> k, QueryID |-> f[k], Name |-> None,
       Pending |-> 0, Supertype |-> GetSupertype(f[k])] : k \in 1..MaxHistRows} :
        f \in [1..MaxHistRows -> {"q1", "q3"}]}

InitAdHoc ==
    /\ queue = <<>>
    /\ payloadStore = [i \in IDs |-> None]
    /\ failedQueue = <<>>
    /\ failedPayloads = [i \in IDs |-> None]
    /\ archive = <<>>
    /\ ddFile = [exists |-> FALSE, bits |-> {}]
    /\ knownIDs = {}
    /\ akPc = "idle"
    /\ akRanged = <<>>
    /\ akItems = <<>>
    /\ akMerge = NoMerge
    /\ currStats = ZeroStats
    /\ stats = ZeroStats
    /\ recsToIndex = <<>>
    /\ now = 1
    /\ pushes = 0
    /\ faults = 0
    /\ admins = 0
    /\ obs = InitObs
    /\ hist \in InitAdHocHists
    /\ ftIndex = {GetID(AsIndexableDoc(r)) : r \in hist}
    /\ gcLast = NoDelete
    /\ gcMark = NoMark
    /\ gcTimer = InitTimer
    /\ gcObs = InitGcObs
    /\ adhocUsers = {}
    /\ InitClIdle

NextAdHoc == RunAdHoc \/ HistWrite

SpecAdHoc == InitAdHoc /\ [][NextAdHoc]_vars

(* ----------------------------- init import ------------------------------ *)

MaxInitRuns == 4
\* the largest --chunk-size tried
MaxChunk == 3

\* RedisAdapter.Type
KeyType(key) == key.type

\* RedisAdapter.Exists
Exists(key) == key.type # "none"

\* a sorted set: Redis removes the key with its last member
ZSet(users) == IF users = {} THEN NoKey ELSE [type |-> "zset", users |-> users]

\* GetUserRecords(userID, numItems): the numItems newest entries of the user
RECURSIVE GetUserRecords(_, _, _)
GetUserRecords(tbl, userID, numItems) ==
    LET mine == {r \in tbl : r.UserID = userID}
    IN IF numItems = 0 \/ mine = {} THEN {}
       ELSE LET top == CHOOSE r \in mine : \A o \in mine : o.Created <= r.Created
            IN {top} \cup GetUserRecords(tbl \ {top}, userID, numItems - 1)

\* processQuery for each of the records: the archived query of an entry
\* exists and has the entry's supertype
RECURSIVE ProcessQueries(_, _)
ProcessQueries(idx, recs) ==
    IF recs = {} THEN idx
    ELSE LET r == CHOOSE x \in recs : TRUE
             idx2 == IF IsIndexable(r.Supertype)
                     THEN BleveIndex(idx, GetID(AsIndexableDoc(r))) ELSE idx
         IN ProcessQueries(idx2, recs \ {r})

\* the loop of DataInitializer.Run. acc = [users, ftIndex, taken,
\* finishedAllChunks, exited, stopped]; failUser: the user whose
\* GetUserRecords fails (os.Exit(5)); interrupt: ctx.Done() is seen in the
\* middle of the first user's records ("midUser") or after them ("afterUser")
RECURSIVE ImportLoop(_, _, _, _)
ImportLoop(n, failUser, interrupt, acc) ==
    IF n = 0 \/ acc.exited \/ acc.stopped THEN acc
    ELSE IF acc.users = {} THEN [acc EXCEPT !.finishedAllChunks = TRUE]
    ELSE LET u == Lowest(acc.users)
             popped == [acc EXCEPT !.users = @ \ {u}, !.taken[u] = @ + 1]
             qIDs == GetUserRecords(hist, u, QueryHistoryNumPreserve)
         IN IF u = failUser
            THEN [popped EXCEPT !.exited = TRUE]
            ELSE IF interrupt = "midUser" /\ qIDs # {}
            THEN [popped EXCEPT
                    !.ftIndex = ProcessQueries(@, {CHOOSE r \in qIDs : TRUE}),
                    !.stopped = TRUE]
            ELSE ImportLoop(n - 1, failUser, "none",
                            [popped EXCEPT !.ftIndex = ProcessQueries(@, qIDs),
                                           !.stopped = interrupt = "afterUser"])

\* a start that takes the finished marker for a missing cursor
RunStartUnguarded(key, tbl) ==
    [refuse |-> FALSE,
     users |-> IF key.type = "zset" THEN key.users ELSE {r.UserID : r \in tbl}]

\* the head of DataInitializer.Run: the guard on the type of the key, and
\* the seeding of the cursor with GetAllUsersWithSomeRecords when the key
\* does not exist
RunStart(key, tbl) ==
    IF KeyType(key) = "string" THEN [refuse |-> TRUE, users |-> {}]
    ELSE [refuse |-> FALSE,
          users |-> IF Exists(key) THEN key.users ELSE {r.UserID : r \in tbl}]

DiFrame == UNCHANGED <<queue, payloadStore, failedQueue, failedPayloads, archive,
                       knownIDs, ddFile, akPc, akRanged, akItems, akMerge,
                       currStats, stats, recsToIndex, now, pushes, obs, clVars,
                       ixVars, hist, gcLast, gcMark, gcTimer, gcObs, adhocUsers,
                       ctVars, sdVars>>

\* DataInitializer.Run (command init-query-history)
InitImportRun ==
    /\ diObs.runs < MaxInitRuns
    /\ \E chunkSize \in 1..MaxChunk, failUser \in {0} \cup Users,
          interrupt \in {"none", "midUser", "afterUser"} :
        LET start == RunStart(diKey, hist)
            refuse == start.refuse
            seeded == start.users
            out == ImportLoop(chunkSize, failUser, interrupt,
                              [users |-> seeded, ftIndex |-> ftIndex,
                               taken |-> diObs.taken, finishedAllChunks |-> FALSE,
                               exited |-> FALSE, stopped |-> FALSE])
            key2 == IF out.finishedAllChunks /\ ~out.exited /\ ~out.stopped
                    THEN [type |-> "string", users |-> {}]
                    ELSE ZSet(out.users)
        IN /\ failUser # 0 => faults < MaxFaults /\ ~refuse /\ out.exited
           /\ refuse => interrupt = "none"
           /\ faults' = IF failUser # 0 THEN faults + 1 ELSE faults
           /\ diKey' = IF refuse THEN diKey ELSE key2
           /\ ftIndex' = IF refuse THEN ftIndex ELSE out.ftIndex
           /\ diObs' = [runs |-> diObs.runs + 1,
                        taken |-> IF refuse THEN diObs.taken ELSE out.taken,
                        afterFinish |-> diKey.type = "string",
                        changed |-> diKey' # diKey \/ ftIndex' # ftIndex,
                        exited |-> ~refuse /\ out.exited]
    /\ UNCHANGED admins
    /\ DiFrame

\* the operator removes the key camus_users_qh_init by hand
DiDeleteKey ==
    /\ diKey.type = "string"
    /\ admins < MaxAdmin
    /\ admins' = admins + 1
    /\ diKey' = NoKey
    /\ diObs' = [NoImport EXCEPT !.runs = diObs.runs]
    /\ UNCHANGED <<ftIndex, faults>>
    /\ DiFrame

\* the index is empty before the first import
InitImport ==
    /\ queue = <<>>
    /\ payloadStore = [i \in IDs |-> None]
    /\ failedQueue = <<>>
    /\ failedPayloads = [i \in IDs |-> None]
    /\ archive = <<>>
    /\ ddFile = [exists |-> FALSE, bits |-> {}]
    /\ knownIDs = {}
    /\ akPc = "idle"
    /\ akRanged = <<>>
    /\ akItems = <<>>
    /\ akMerge = NoMerge
    /\ currStats = ZeroStats
    /\ stats = ZeroStats
    /\ recsToIndex = <<>>
    /\ now = 1
    /\ pushes = 0
    /\ faults = 0
    /\ admins = 0
    /\ obs = InitObs
    /\ hist \in InitAdHocHists
    /\ ftIndex = {}
    /\ gcLast = NoDelete
    /\ gcMark = NoMark
    /\ gcTimer = InitTimer
    /\ gcObs = InitGcObs
    /\ adhocUsers = {}
    /\ InitClIdle

NextImport == InitImportRun \/ DiDeleteKey

SpecImport == InitImport /\ [][NextImport]_vars

NextGC ==
    \/ GcMarkPhase
    \/ GcTimerFires
    \/ GcDeletePhase
    \/ GcSleepDone
    \/ UserNamesEntry
    \/ RunAdHoc

SpecGC == InitGC /\ [][NextGC]_vars

\* the service loop of the HistoryGC alone (no ad-hoc run)
NextGCLoop ==
    \/ GcMarkPhase
    \/ GcTimerFires
    \/ GcDeletePhase
    \/ GcSleepDone
    \/ UserNamesEntry

SpecGCLoop == InitGC /\ [][NextGCLoop]_vars

\* the service loop as scheduled: the tickers and timers of Start expire,
\* and the one goroutine of the loop takes every case that stays ready
SpecGCLive ==
    /\ InitGC
    /\ [][NextGCLoop]_vars
    /\ WF_vars(GcMarkPhase)
    /\ WF_vars(GcTimerFires)
    /\ WF_vars(GcDeletePhase)
    /\ WF_vars(GcSleepDone)

(* --------- the pipeline fed with implicit archive entries only ---------- *)

(* ------------------------------- Cleaner ------------------------------- *)

MaxClRows == 2

\* Conf.NumProcessItemsPerTick
NumProcessItemsPerTick == 2

\* Conf.MinAgeUnvisited, in the unit of the clock
MinAgeUnvisited == 1

\* the UTC offsets time.Local can have
TzOffsets == {0 - 1, 0, 1}

\* a row's Created as the driver scans it (ParseTime, Loc = time.Local)
\* is the wall clock of the DATETIME column in time.Local;
\* Created.Format(dtFormat) prints that wall clock without a zone
FormatTime(wall) == [set |-> TRUE, wall |-> wall]

\* time.Parse(dtFormat, raw): a layout without a zone yields the instant
\* that has this wall clock in UTC
ParseTime(raw) == [utc |-> raw.wall]

\* the driver renders a time.Time argument in Loc = time.Local: the wall
\* clock the statement compares the DATETIME column with
DriverTimeArg(inst) == inst.utc + tzOffset

\* MySQLConcArch.UpdateRecordStatus: the table after the UPDATE
UpdateRecordStatus(tbl, id, status) ==
    [i \in 1..Len(tbl) |->
        IF tbl[i].ID = id THEN [tbl[i] EXCEPT !.Permanent = status] ELSE tbl[i]]

\* MySQLConcArch.LoadRecordsFromDate: the row sequences the SELECT can
\* return (rows of equal created come in any order); hasDate = FALSE is
\* the zero time.Time, which precedes every row
LoadRecordsFromDate(hasDate, fromWall, maxItems) ==
    LET P == {i \in 1..Len(archive) : ~hasDate \/ archive[i].Created >= fromWall}
        k == Min(maxItems, Cardinality(P))
    IN {[j \in 1..k |-> archive[f[j]]] :
            f \in {g \in [1..k -> P] :
                /\ \A a, b \in 1..k : a < b =>
                        /\ g[a] # g[b]
                        /\ archive[g[a]].Created <= archive[g[b]].Created
                /\ \A q \in P : (\A a \in 1..k : g[a] # q) =>
                        \A a \in 1..k : archive[g[a]].Created <= archive[q].Created}}

\* archiver.ValidateQueryInstances: the variants carry one query
ValidateQueryInstances(variants) == Cardinality(RowData(variants)) <= 1

\* MySQLConcArch.DeduplicateInArchive with both statements succeeding
DeduplicateInArchive(tbl, variants, rec, t) ==
    InsertRecord(RemoveRecordsByID(tbl, rec.ID), MergeRecords(variants, rec, t))

\* reporting.CleanupStats
ZeroCleanupStats == [NumErrors |-> 0, NumMerged |-> 0, NumFetched |-> 0]

\* the accumulator of the loop of performCleanup: the table, the stats and
\* what the tick did (history)
InitCleanAcc(tbl) ==
    [tbl |-> tbl, crashed |-> FALSE, failed |-> {}, used |-> FALSE,
     stats |-> ZeroCleanupStats, failID |-> "", tagged |-> FALSE, done |-> 0,
     soleOld |-> {}, oldMerged |-> {}]

Unvisited(rec, birthLimit) == rec.NumAccess = 0 /\ rec.Created < birthLimit

\* the loop of performCleanup over the loaded items. failAt/failKind place
\* one store error: "load" (LoadRecordsByID), "mergeRemove" and
\* "mergeInsert" (the two statements of DeduplicateInArchive), "remove"
\* (RemoveRecordsByID).
RECURSIVE CleanLoop(_, _, _, _, _, _)
CleanLoop(items, i, failAt, failKind, birthLimit, acc0) ==
    IF i > Len(items) \/ acc0.crashed THEN acc0
    ELSE
    LET item == items[i]
        acc == [acc0 EXCEPT !.stats.NumFetched = @ + 1]
        fail(kind) == failAt = i /\ failKind = kind
        variants == SelectSeq(acc.tbl, LAMBDA r : r.ID = item.ID)
        allOld == \A k \in 1..Len(variants) : Unvisited(variants[k], birthLimit)
        \* UpdateRecordStatus(-1); stats.NumErrors++; continue
        failedAcc(a, tbl) ==
            LET upd == UpdateRecordStatus(tbl, item.ID, 0 - 1)
            IN [a EXCEPT !.tbl = upd,
                         !.failed = @ \cup {item.Created},
                         !.used = TRUE,
                         !.failID = item.ID,
                         !.tagged = \E k \in 1..Len(upd) :
                                        upd[k].ID = item.ID /\ upd[k].Permanent = 0 - 1,
                         !.stats.NumErrors = @ + 1,
                         !.done = @ + 1]
        ok(a, tbl) == [a EXCEPT !.tbl = tbl, !.done = @ + 1]
        nxt ==
            IF fail("load")
            THEN \* the error branch reads variants[0] of the empty slice
                 [acc EXCEPT !.crashed = TRUE, !.failed = @ \cup {item.Created},
                             !.used = TRUE, !.failID = item.ID]
            ELSE IF variants = <<>>
            THEN \* variants[0] of an empty result
                 [acc EXCEPT !.crashed = TRUE]
            ELSE IF ~ValidateQueryInstances(variants)
            THEN [acc EXCEPT !.tbl = UpdateRecordStatus(acc.tbl, item.ID, 0 - 1),
                             !.stats.NumErrors = @ + 1,
                             !.done = @ + 1]
            ELSE IF Len(variants) > 1
            THEN IF fail("mergeRemove") THEN failedAcc(acc, acc.tbl)
                 ELSE IF fail("mergeInsert")
                 THEN failedAcc(acc, RemoveRecordsByID(acc.tbl, item.ID))
                 ELSE LET mergedItem == MergeRecords(variants, variants[1], now)
                          merged == DeduplicateInArchive(acc.tbl, variants, variants[1], now)
                          acc2 == [acc EXCEPT
                                     !.stats.NumMerged = @ + 1,
                                     !.oldMerged = IF allOld THEN @ \cup {item.ID} ELSE @]
                      IN IF Unvisited(mergedItem, birthLimit)
                         THEN IF fail("remove") THEN failedAcc(acc2, merged)
                              ELSE ok(acc2, RemoveRecordsByID(merged, variants[1].ID))
                         ELSE ok(acc2, merged)
            ELSE IF Unvisited(variants[1], birthLimit)
                 THEN IF fail("remove") THEN failedAcc(acc, acc.tbl)
                      ELSE ok([acc EXCEPT !.soleOld = @ \cup {item.ID}],
                              RemoveRecordsByID(acc.tbl, variants[1].ID))
                 ELSE ok(acc, acc.tbl)
    IN CleanLoop(items, i + 1, failAt, failKind, birthLimit, nxt)

ClFrame == UNCHANGED <<queue, payloadStore, failedQueue, failedPayloads,
                       knownIDs, ddFile, akPc, akRanged, akItems, akMerge,
                       currStats, stats, recsToIndex, now, admins, obs,
                       gcVars, tzOffset, ixVars, restVars>>

\* the hours of the day a tick is observed at
Hours == {12, 23}

\* cncdb.TimeIsAtNight
TimeIsAtNight(hour) == hour >= 22 \/ hour <= 5

\* Conf.ValidateAndDefaults, the default of NumProcessItemsPerTickNight
dfltNightItemsIncrease == 2
NumProcessItemsPerTickNight == NumProcessItemsPerTick * dfltNightItemsIncrease

HasID(tbl, id) == \E k \in 1..Len(tbl) : tbl[k].ID = id

\* Service.performCleanup, one tick, run at the given hour of the day. A
\* panic ends the process (clPc = "crashed") with the cursor as it was;
\* the statements of the items before the panic have been committed.
PerformCleanup ==
    /\ clPc = "idle"
    /\ \E items \in LoadRecordsFromDate(clCursor.set,
                        DriverTimeArg(ParseTime(clCursor)), NumProcessItemsPerTick),
          failAt \in 0..NumProcessItemsPerTick,
          failKind \in {"none", "load", "mergeRemove", "mergeInsert", "remove"},
          hour \in Hours :
        LET out == CleanLoop(items, 1, failAt, failKind, now - MinAgeUnvisited,
                             InitCleanAcc(archive))
            crashed == out.crashed \/ items = <<>>
            after == IF crashed THEN clCursor
                     ELSE FormatTime(items[Len(items)].Created)
            avail == Cardinality({k \in 1..Len(archive) :
                        ~clCursor.set
                        \/ archive[k].Created >= DriverTimeArg(ParseTime(clCursor))})
        IN /\ (failAt = 0) = (failKind = "none")
           /\ out.used = (failAt # 0)
           /\ failAt # 0 => faults < MaxFaults
           /\ faults' = IF failAt # 0 THEN faults + 1 ELSE faults
           /\ archive' = out.tbl
           /\ clCursor' = after
           /\ clPc' = IF crashed THEN "crashed" ELSE "idle"
           /\ clLast' = [ran |-> TRUE, valid |-> ~crashed, before |-> clCursor,
                         after |-> after, failed |-> out.failed,
                         failKind |-> failKind, tagged |-> out.tagged,
                         stats |-> out.stats, done |-> out.done,
                         fetched |-> Len(items), available |-> avail,
                         night |-> TimeIsAtNight(hour),
                         soleOld |-> Cardinality(out.soleOld),
                         soleOldLeft |-> {id \in out.soleOld : HasID(out.tbl, id)},
                         oldMerged |-> out.oldMerged,
                         oldMergedLeft |-> {id \in out.oldMerged : HasID(out.tbl, id)}]
    /\ UNCHANGED pushes
    /\ ClFrame

\* the process is started again after a panic
CleanerRestart ==
    /\ clPc = "crashed"
    /\ clPc' = "idle"
    /\ UNCHANGED <<archive, clCursor, clLast, faults, pushes>>
    /\ ClFrame

\* ArchKeeper stores a record while the Cleaner is between two ticks
\* (MySQLConcArch.InsertRecord with Created = time.Now())
ClArchived ==
    /\ pushes < MaxPush
    /\ \E id \in IDs :
        archive' = InsertRecord(archive, QueryArchRec(id, "p1", now, 0, ZeroTime, 0))
    /\ pushes' = pushes + 1
    /\ UNCHANGED <<clCursor, clPc, clLast, faults>>
    /\ ClFrame

\* the archive tables the Cleaner is started on: row k was created at k,
\* all of them before now - MinAgeUnvisited
InitClArchives ==
    {[k \in 1..MaxClRows |-> QueryArchRec(f[k][1], f[k][2], k, f[k][3], k, 0)] :
        f \in [1..MaxClRows -> IDs \X Payloads \X {0, 1}]}

InitCleaner ==
    /\ queue = <<>>
    /\ payloadStore = [i \in IDs |-> None]
    /\ failedQueue = <<>>
    /\ failedPayloads = [i \in IDs |-> None]
    /\ archive \in InitClArchives
    /\ ddFile = [exists |-> FALSE, bits |-> {}]
    /\ knownIDs = {}
    /\ akPc = "idle"
    /\ akRanged = <<>>
    /\ akItems = <<>>
    /\ akMerge = NoMerge
    /\ currStats = ZeroStats
    /\ stats = ZeroStats
    /\ recsToIndex = <<>>
    /\ now = MaxClRows + MinAgeUnvisited + 1
    /\ pushes = 0
    /\ faults = 0
    /\ admins = 0
    /\ obs = InitObs
    /\ InitGCIdle
    /\ clCursor = NoCursor
    /\ clPc = "idle"
    /\ tzOffset \in TzOffsets
    /\ clLast = NoClean
    /\ ixLast = NoIndexOp
    /\ InitRestIdle

NextCleaner ==
    \/ PerformCleanup
    \/ CleanerRestart
    \/ ClArchived

SpecCleaner == InitCleaner /\ [][NextCleaner]_vars


\* number of rows of the archives with rows of equal created
MaxTieRows == 3

\* archives in which rows share their created value: the last row was
\* created at 2, the rows before it at 1, and each has been read once
InitTieArchives ==
    {[k \in 1..MaxTieRows |->
            QueryArchRec(f[k][1], f[k][2], IF k < MaxTieRows THEN 1 ELSE 2, 1, 1, 0)] :
        f \in [1..MaxTieRows -> IDs \X Payloads]}

InitCleanerLive ==
    /\ queue = <<>>
    /\ payloadStore = [i \in IDs |-> None]
    /\ failedQueue = <<>>
    /\ failedPayloads = [i \in IDs |-> None]
    /\ archive \in InitTieArchives
    /\ ddFile = [exists |-> FALSE, bits |-> {}]
    /\ knownIDs = {}
    /\ akPc = "idle"
    /\ akRanged = <<>>
    /\ akItems = <<>>
    /\ akMerge = NoMerge
    /\ currStats = ZeroStats
    /\ stats = ZeroStats
    /\ recsToIndex = <<>>
    /\ now = MaxTieRows + MinAgeUnvisited + 1
    /\ pushes = 0
    /\ faults = 0
    /\ admins = 0
    /\ obs = InitObs
    /\ InitGCIdle
    /\ clCursor = NoCursor
    /\ clPc = "idle"
    /\ tzOffset = 0
    /\ clLast = NoClean
    /\ ixLast = NoIndexOp
    /\ InitRestIdle

NextCleanerLive ==
    \/ PerformCleanup
    \/ CleanerRestart

\* the Cleaner as scheduled: its ticker fires again and again, and a
\* process that has ended is started again
SpecCleanerLive ==
    /\ InitCleanerLive
    /\ [][NextCleanerLive]_vars
    /\ WF_vars(PerformCleanup)
    /\ WF_vars(CleanerRestart)

\* archive tables with rows pinned by their users (permanent = 1): row k
\* was created at k, all of them before now - MinAgeUnvisited
InitPinnedArchives ==
    {[k \in 1..MaxClRows |-> QueryArchRec(f[k][1], "p1", k, f[k][2], k, f[k][3])] :
        f \in [1..MaxClRows -> IDs \X {0, 1} \X {0, 1}]}

InitCleanerPinned ==
    /\ queue = <<>>
    /\ payloadStore = [i \in IDs |-> None]
    /\ failedQueue = <<>>
    /\ failedPayloads = [i \in IDs |-> None]
    /\ archive \in InitPinnedArchives
    /\ ddFile = [exists |-> FALSE, bits |-> {}]
    /\ knownIDs = {}
    /\ akPc = "idle"
    /\ akRanged = <<>>
    /\ akItems = <<>>
    /\ akMerge = NoMerge
    /\ currStats = ZeroStats
    /\ stats = ZeroStats
    /\ recsToIndex = <<>>
    /\ now = MaxClRows + MinAgeUnvisited + 1
    /\ pushes = 0
    /\ faults = 0
    /\ admins = 0
    /\ obs = InitObs
    /\ InitGCIdle
    /\ clCursor = NoCursor
    /\ clPc = "idle"
    /\ tzOffset = 0
    /\ clLast = NoClean
    /\ ixLast = NoIndexOp
    /\ InitRestIdle

SpecCleanerPinned == InitCleanerPinned /\ [][NextCleaner]_vars

(* --------------- ArchKeeper and Cleaner on the same rows --------------- *)

\* number of items the Cleaner works on
MaxClSteps == 2

CtFrame == UNCHANGED <<queue, payloadStore, failedQueue, failedPayloads, knownIDs,
                       ddFile, akPc, akRanged, akItems, akMerge, currStats, stats,
                       recsToIndex, now, pushes, faults, admins, obs, gcVars,
                       clVars, ixVars, diVars, sdVars>>

\* performCleanup, one item of the batch: LoadRecordsByID and
\* ValidateQueryInstances; every statement commits on its own
ClStepLoad ==
    /\ ctCl.pc = "idle"
    /\ ctCl.n < MaxClSteps
    /\ \E id \in {archive[i].ID : i \in 1..Len(archive)} :
        LET variants == LoadRecordsByID(id)
            birthLimit == now - MinAgeUnvisited
        IN IF ~ValidateQueryInstances(variants)
           THEN /\ archive' = UpdateRecordStatus(archive, id, 0 - 1)
                /\ ctCl' = [NoClStep EXCEPT !.n = ctCl.n + 1]
           ELSE /\ UNCHANGED archive
                /\ ctCl' = [pc |-> IF Len(variants) > 1 THEN "remove"
                                   ELSE IF Unvisited(variants[1], birthLimit)
                                   THEN "removeOld" ELSE "idle",
                            id |-> id, variants |-> variants, n |-> ctCl.n + 1]
    /\ CtFrame

\* DeduplicateInArchive(variants, variants[0]): RemoveRecordsByID
ClStepRemove ==
    /\ ctCl.pc = "remove"
    /\ archive' = RemoveRecordsByID(archive, ctCl.id)
    /\ ctCl' = [ctCl EXCEPT !.pc = "insert"]
    /\ CtFrame

\* DeduplicateInArchive(variants, variants[0]): MergeRecords, InsertRecord
ClStepInsert ==
    /\ ctCl.pc = "insert"
    /\ LET mergedItem == MergeRecords(ctCl.variants, ctCl.variants[1], now)
       IN /\ archive' = InsertRecord(archive, mergedItem)
          /\ ctCl' = [ctCl EXCEPT
                 !.pc = IF Unvisited(mergedItem, now - MinAgeUnvisited)
                        THEN "removeOld" ELSE "idle"]
    /\ CtFrame

\* RemoveRecordsByID of a row without access that is old enough
ClStepRemoveOld ==
    /\ ctCl.pc = "removeOld"
    /\ archive' = RemoveRecordsByID(archive, ctCl.id)
    /\ ctCl' = [ctCl EXCEPT !.pc = "idle"]
    /\ CtFrame

\* the archive both services find: empty, or one row of id "a" that is old
\* enough for removal and was read once or never
InitContendArchives ==
    {<<>>} \cup {<<QueryArchRec("a", "p1", 1, n, 1, 0)>> : n \in {0, 1}}

InitContend ==
    /\ queue = <<>>
    /\ payloadStore = [i \in IDs |-> None]
    /\ failedQueue = <<>>
    /\ failedPayloads = [i \in IDs |-> None]
    /\ archive \in InitContendArchives
    /\ ddFile = [exists |-> FALSE, bits |-> {}]
    /\ knownIDs = {}
    /\ akPc = "idle"
    /\ akRanged = <<>>
    /\ akItems = <<>>
    /\ akMerge = NoMerge
    /\ currStats = ZeroStats
    /\ stats = ZeroStats
    /\ recsToIndex = <<>>
    /\ now = MinAgeUnvisited + 2
    /\ pushes = 0
    /\ faults = 0
    /\ admins = 0
    /\ obs = InitObs
    /\ InitGCIdle
    /\ clCursor = NoCursor
    /\ clPc = "idle"
    /\ tzOffset = 0
    /\ clLast = NoClean
    /\ ixLast = NoIndexOp
    /\ InitRestIdle

\* the ArchKeeper with implicit entries and the Cleaner, both running
NextContend ==
    \/ \E k \in IDs, p \in Payloads \cup {None} : Push(RawEntry("bare", k, "", FALSE), p)
    \/ AkRange
    \/ AkTrim
    \/ AkItemMissing
    \/ AkItemImplicitInsert
    \/ AkItemImplicitLoadFail
    \/ AkItemImplicitMatch
    \/ AkMergeRemove
    \/ AkMergeInsert
    \/ AkFinish
    \/ ClStepLoad
    \/ ClStepRemove
    \/ ClStepInsert
    \/ ClStepRemoveOld

SpecContend == InitContend /\ [][NextContend]_vars


(* ------------------------------- Indexer ------------------------------- *)

MaxIndexOps == 3

\* the history records handed to the Indexer; Supertype is the supertype
\* of the archived query the record points to
IndexHRecs ==
    {[Created |-> 1, QueryID |-> q, UserID |-> u,
      Supertype |-> GetSupertype(q), Name |-> None] :
        q \in {"q1", "q2", "q3", "q4", "q5"}, u \in Users}

IxFrame == UNCHANGED <<archVars, clVars, hist, gcLast, gcMark, gcTimer, gcObs,
                       adhocUsers, restVars>>

\* Indexer.IndexRecord
IndexRecord ==
    /\ ixLast.n < MaxIndexOps
    /\ \E hRec \in IndexHRecs :
        LET ok == IsIndexable(hRec.Supertype)
            key == GetID(AsIndexableDoc(hRec))
            idx == IF ok THEN BleveIndex(ftIndex, key) ELSE ftIndex
        IN /\ ftIndex' = idx
           /\ ixLast' = [op |-> "index", rec |-> hRec,
                         key |-> IF ok THEN key ELSE None,
                         indexed |-> ok,
                         again |-> \E d \in ixLast.docs : d.rec = hRec /\ d.key \in ftIndex,
                         preCount |-> Cardinality(ftIndex),
                         docs |-> IF ok THEN ixLast.docs \cup {[rec |-> hRec, key |-> key]}
                                  ELSE ixLast.docs,
                         n |-> ixLast.n + 1]
    /\ IxFrame

\* Indexer.Delete(rec.CreateIndexID()), as called by the delete phase of
\* the GarbageCollector, RunAdHoc and the remove channel
IndexDelete ==
    /\ ixLast.n < MaxIndexOps
    /\ \E hRec \in IndexHRecs :
        /\ ftIndex' = BleveDelete(ftIndex, CreateIndexID(hRec))
        /\ ixLast' = [ixLast EXCEPT !.op = "delete", !.rec = hRec,
                                    !.key = CreateIndexID(hRec),
                                    !.indexed = FALSE,
                                    !.again = \E d \in ixLast.docs :
                                                  d.rec = hRec /\ d.key \in ftIndex,
                                    !.preCount = Cardinality(ftIndex),
                                    !.n = @ + 1]
    /\ IxFrame

\* NewIndexer on an empty index directory
InitIndex ==
    /\ Init
    /\ archive = <<>>

NextIndex ==
    \/ IndexRecord
    \/ IndexDelete

SpecIndex == InitIndex /\ [][NextIndex]_vars

NextImplicit ==
    \/ \E k \in IDs, p \in Payloads \cup {None} : Push(RawEntry("bare", k, "", FALSE), p)
    \/ ClockTick
    \/ AkRange
    \/ AkTrim
    \/ AkItemMissing
    \/ AkItemImplicitInsert
    \/ AkItemImplicitLoadFail
    \/ AkItemImplicitMatch
    \/ AkMergeRemove
    \/ AkMergeInsert
    \/ AkFinish
    \/ Restart

SpecImplicit == Init /\ [][NextImplicit]_vars

\* the ArchKeeper with implicit entries only, the dedup-reset endpoint and
\* the shutdown that stores the Deduplicator state
NextDedup ==
    \/ NextImplicit
    \/ DedupReset
    \/ Stop

SpecDedup == Init /\ [][NextDedup]_vars


(* ------------------------------ properties ------------------------------ *)

Range(s) == {s[i] : i \in 1..Len(s)}

RECURSIVE SumNumAccess(_)
SumNumAccess(recs) ==
    IF recs = <<>> THEN 0 ELSE Head(recs).NumAccess + SumNumAccess(Tail(recs))

\* C1: the drain is atomic with respect to producers: the LTRIM of a drain
\* removes no entry that its LRANGE has not returned.
C1_DrainAtomic == obs.trimLost = 0

\* C2: the store-level merge is atomic: an id that had a row when its merge
\* began has a row in every state, also after the insert of the merge failed.
C2_MergeAtomic == \A i \in obs.mergedIds : LoadRecordsByID(i) # <<>>

\* C3: a delete phase of HistoryGC that succeeds takes the selected number of
\* rows from the history table and as many documents from the index; one that
\* fails and rolls back takes nothing from either.
C3_DeleteParity ==
    /\ gcLast.result = "ok" =>
           /\ gcLast.preRows - gcLast.postRows = gcLast.selected
           /\ gcLast.preDocs - gcLast.postDocs = gcLast.selected
    /\ gcLast.result = "rollback" =>
           /\ gcLast.postRows = gcLast.preRows
           /\ gcLast.postDocs = gcLast.preDocs

\* C4: for every archive id there is at most one row with permanent >= 0, or
\* all rows of the id share one payload.
C4_OnePayloadPerId ==
    \A i \in IDs :
        LET rows == LoadRecordsByID(i)
        IN \/ Cardinality({k \in 1..Len(rows) : rows[k].Permanent >= 0}) <= 1
           \/ Cardinality(RowData(rows)) <= 1

\* the last merge collapsed the single row that an implicit ingestion of the
\* id had inserted (and nobody has accessed since)
TwiceIngested ==
    /\ obs.lastMerge.valid
    /\ Len(obs.lastMerge.pre) = 1
    /\ obs.lastMerge.pre[1] \in obs.implicitIns

\* C5 (as amended): ingesting an id twice via implicit archival leaves one row
\* with num_access = 1, created = the time of the first ingestion and
\* last_access = the time of the merge of the second ingestion.
C5_TwiceIngestedMerged ==
    TwiceIngested =>
        /\ obs.lastMerge.after = <<obs.lastMerge.merged>>
        /\ obs.lastMerge.merged.NumAccess = 1
        /\ obs.lastMerge.merged.Created = obs.lastMerge.pre[1].Created
        /\ obs.lastMerge.merged.LastAccess = obs.lastMerge.at

\* C5 (as stated): ingesting an id twice via implicit archival leaves one row
\* with num_access = 2.
C5_NumAccessTwo ==
    TwiceIngested =>
        /\ obs.lastMerge.after = <<obs.lastMerge.merged>>
        /\ obs.lastMerge.merged.NumAccess = 2

\* C5, witness: the second ingestion was merged at a later time than the
\* first one inserted its row
C5_Witness ==
    /\ TwiceIngested
    /\ obs.lastMerge.pre[1].Created < obs.lastMerge.at

\* C6: the num_access of the row a merge leaves is new_rec.num_access + 1 +
\* the sum of num_access over all rows the merge removed.
C6_NumAccessSum ==
    obs.lastMerge.valid =>
        obs.lastMerge.merged.NumAccess =
            obs.lastMerge.newRec.NumAccess + 1 + SumNumAccess(obs.lastMerge.pre)

\* C7: the data of the row a merge leaves is the canonical payload, the one
\* the largest group of the rows loaded for the id shares.
C7_CanonicalPayload ==
    obs.lastMerge.valid =>
        obs.lastMerge.merged.Data \in BestRecKeys(obs.lastMerge.pre)

\* C8: a tick that ran to its end shortened the queue by at most
\* check_interval_chunk entries and changed the number of archive rows by
\* num_inserted + num_merged_net.
C8_TickAccounting ==
    obs.lastTick.valid =>
        /\ obs.lastTick.drained <= CheckIntervalChunk
        /\ obs.lastTick.delta = obs.lastTick.inserted + obs.lastTick.mergedNet

\* C9: every entry whose processing failed is in the failure queue, with its
\* payload when one had been fetched, and the error counter was incremented
\* for it.
C9_FailuresQueued ==
    /\ \A f \in obs.failed :
           /\ ItemJSON(f.item) \in Range(failedQueue)
           /\ f.data # None => failedPayloads[KeyCode(f.item.Key)] = f.data
    /\ obs.errTotal >= obs.failCount

\* C10: a malformed queue entry does not affect the other entries drained in
\* the same tick: no drained entry is dropped because of it.
C10_MalformedIsolated == obs.decodeLost = 0

\* C11: explicit archival inserts a row for an id only when the archive has
\* no row with the id, and when it inserts, the Deduplicator knows the id.
C11_ExplicitInsertsOnce ==
    (obs.lastExplicit.valid /\ obs.lastExplicit.post > obs.lastExplicit.pre) =>
        /\ obs.lastExplicit.pre = 0
        /\ obs.lastExplicit.known

\* the only entry ever pushed was drained alone by a tick as a first
\* archival, and no store error occurred
ScenarioA ==
    /\ obs.firstArchival
    /\ pushes = 1 /\ faults = 0 /\ admins = 0
    /\ akPc \notin {"ranged", "proc"}

\* C12: a tick that drains a single bare entry whose payload exists and whose
\* id is unknown completes normally and leaves one row for the id with
\* num_access 0 and permanent 0, the Deduplicator knowing the id, nothing on
\* the history stream and exactly one message on the stats stream.
C12_FirstArchival ==
    ScenarioA =>
        /\ akPc = "idle"
        /\ \E i \in IDs :
               /\ Len(archive) = 1 /\ archive[1].ID = i
               /\ archive[1].NumAccess = 0 /\ archive[1].Permanent = 0
               /\ TestRecord(i)
        /\ recsToIndex = <<>>
        /\ obs.statsSent = 1

\* C13: no history entry with a name is ever flagged by the mark phase of
\* HistoryGC or removed, from the table or from the index, by its delete
\* phase, also when the user names the entry after it was flagged.
C13_NamedNeverCollected == ~gcObs.namedFlagged /\ ~gcObs.namedRemoved

\* C13, witness: a delete phase selected a pending entry that bears a name,
\* and the entry and its index document are still there
C13_Witness ==
    /\ gcObs.namedSelected
    /\ \E r \in hist : r.Name # None /\ r.Pending # 0 /\ CreateIndexID(r) \in ftIndex

\* C14: the ad-hoc chunked GC never deletes a history entry with a name,
\* neither from the table nor from the index.
C14_AdHocKeepsNamed == ~gcObs.adhocNamedRemoved

Quiescent ==
    /\ gcMark.result # "none"
    /\ gcLast.result # "none"
    /\ \A r \in hist : r.Pending = 0

\* C16: at quiescence every unnamed entry has at most
\* query_history_num_preserve - 1 newer unnamed entries of the same user.
C16_CapAtQuiescence ==
    Quiescent =>
        \A r \in hist : r.Name = None => RowNum(hist, r) <= QueryHistoryNumPreserve

\* C17: with unnamed entries only and no store error, the mark phase flags
\* exactly the entries beyond the cap, and a delete phase deletes
\* min(max_num_delete_at_once, number of pending entries) entries.
C17_MarkThenDeleteCounts ==
    (faults = 0 /\ \A r \in hist : r.Name = None) =>
        /\ gcMark.result # "none" =>
               gcMark.result = "ok" /\ gcMark.flagged = gcMark.beyondCap
        /\ gcLast.result # "none" =>
               gcLast.preRows - gcLast.postRows = Min(MaxNumDelete, gcLast.pending)

\* C18: whenever the delete timer has expired, the loop of the service waits
\* on that timer, so the next delete phase fires without any other event.
C18_DeleteTimerRearmed == gcTimer.fired => gcTimer.watched

\* C19: the cursor a completed Cleaner tick persists is never earlier
\* than the cursor that tick started from.
C19_CursorMonotonic ==
    (clLast.valid /\ clLast.before.set) => clLast.after.wall >= clLast.before.wall

\* C20: after a completed Cleaner tick in which a row failed with a store
\* error, the persisted cursor is not later than that row's created.
C20_CursorNotBeyondFailed ==
    clLast.valid => \A c \in clLast.failed : clLast.after.wall <= c

\* C21: a variant-load or merge failure for one id in a Cleaner tick is
\* contained: the tick does not fault, the id is tagged permanent = -1,
\* num_errors is incremented and every loaded row is processed.
C21_FailureContained ==
    (clLast.ran /\ clLast.failKind \in {"load", "mergeRemove", "mergeInsert"}) =>
        /\ clLast.valid
        /\ clLast.tagged
        /\ clLast.stats.NumErrors >= 1
        /\ clLast.done = clLast.fetched

\* C22: a Cleaner tick with an empty batch completes without fault and
\* leaves the cursor as it was.
C22_EmptyBatchNoOp ==
    (clLast.ran /\ clLast.fetched = 0) =>
        clLast.valid /\ clLast.after = clLast.before

\* the num_deleted a tick reports; reporting.CleanupStats
ReportedNumDeleted(st) ==
    IF "NumDeleted" \in DOMAIN st THEN st.NumDeleted ELSE 0

\* C23: a completed tick that met ids whose only row was never accessed
\* and is older than the age limit has removed those rows and reports
\* their number as num_deleted.
C23_OldSoleRowDeleted ==
    (clLast.valid /\ clLast.soleOld > 0) =>
        /\ clLast.soleOldLeft = {}
        /\ ReportedNumDeleted(clLast.stats) = clLast.soleOld

\* C24: after a completed tick that merged the variants of an id all of
\* whose rows were never accessed and older than the age limit, no row of
\* that id remains.
C24_OldVariantsDeleted ==
    clLast.valid => clLast.oldMergedLeft = {}

\* C25: a tick at night loads up to the night batch size, a tick by day up
\* to the day batch size.
C25_NightBatchSize ==
    clLast.ran =>
        clLast.fetched = Min(clLast.available,
                             IF clLast.night THEN NumProcessItemsPerTickNight
                             ELSE NumProcessItemsPerTick)


\* C26: the Deduplicator has no false negatives: TestRecord is true for
\* every id added since the last Reset, and in a process that loaded the
\* state file for every id present when the file was last stored.
C26_NoFalseNegatives ==
    akPc \notin {"crashed", "stopped"} =>
        /\ \A id \in obs.ddAdded : TestRecord(id)
        /\ obs.ddLoaded => \A id \in obs.ddStored : TestRecord(id)

C26_Witness ==
    /\ akPc = "idle"
    /\ obs.ddLoaded
    /\ obs.ddStored # {}
    /\ obs.ddAdded # {}
    /\ obs.ddAdded # obs.ddStored

\* the documents in the index that were written for the record
DocsOf(hRec) == {d \in ixLast.docs : d.rec = hRec /\ d.key \in ftIndex}

\* C27: for every indexable supertype the key IndexRecord writes the
\* document under is the record's index_id, so that a delete by index_id
\* leaves no document of the record in the index.
C27_IndexKeyIsIndexID ==
    /\ (ixLast.op = "index" /\ ixLast.indexed) => ixLast.key = CreateIndexID(ixLast.rec)
    /\ ixLast.op = "delete" => DocsOf(ixLast.rec) = {}

C29_AdHocRunTwice ==
    gcObs.adhoc.ran => gcObs.adhoc.left = {} /\ gcObs.adhoc.removedAgain = {}

\* C30: after an ad-hoc run, every user whose processing failed is still in
\* the cursor set
C30_NoUserLost ==
    gcObs.adhoc.ran => gcObs.adhoc.lost = {}

\* C31: an invocation of the init import that finds the finished marker
\* changes neither the index nor the key camus_users_qh_init
C31_FinishedImportRefuses ==
    diObs.afterFinish => ~diObs.changed

C31_Witness ==
    /\ diObs.afterFinish
    /\ diKey.type = "string"
    /\ ftIndex # {}

\* C38: no user is taken from the cursor of the init import more than once
C38_TakenOnce ==
    \A u \in Users : diObs.taken[u] <= 1

C33_EmptyDrainNoTrim ==
    [][(akPc = "ranged" /\ akRanged = <<>> /\ akPc' # "ranged")
            => queue' = queue]_vars

\* C34: when the ArchKeeper and the Cleaner are both between two items, an
\* id the ArchKeeper has merged has at most one row
C34_MergesSerializable ==
    (akPc = "idle" /\ ctCl.pc = "idle")
        => \A id \in obs.mergedIds : Len(LoadRecordsByID(id)) <= 1

\* C35: the ArchKeeper never sends on the history stream after Stop has
\* closed it
C35_NoSendAfterClose ==
    ~shut.sentClosed

\* C39: the Indexer's loop never takes a record from the closed history
\* stream
C39_NoRecordFromClosedStream ==
    ~shut.zeroRecv

\* the entry created at k is in the table, flagged and unnamed
PendingUnnamed(k) ==
    \E r \in hist : r.Created = k /\ r.Pending # 0 /\ r.Name = None

\* C36: every entry that is flagged and unnamed is eventually deleted (or
\* named) by the repeated delete phases
C36_PendingEventuallyDeleted ==
    \A k \in 1..MaxHistRows : PendingUnnamed(k) ~> ~PendingUnnamed(k)

\* the cursor holds c and a row with a later created exists
CursorBehind(c) ==
    /\ clCursor = FormatTime(c)
    /\ \E i \in 1..Len(archive) : archive[i].Created > c

\* C37: the cursor does not keep a value for ever while rows with a later
\* created exist
C37_CleanerProgress ==
    \A c \in 1..2 : CursorBehind(c) ~> ~CursorBehind(c)

\* C40: a step of the Cleaner leaves a row in the table for the id of
\* every row with permanent = 1
C40_PinnedNeverDeleted ==
    [][\A i \in 1..Len(archive) :
            archive[i].Permanent = 1 => HasID(archive', archive[i].ID)]_vars

====
